---- MODULE Spec2Model ----
(***************************************************************************)
(* Model of the resource pipeline of poleshift:                            *)
(*   apps/poleshift-app/src-tauri/src/splashscreen/mod.rs                  *)
(* download_resources builds one task per catalog entry; a task handles    *)
(* the compressed file (phase A: re-verify a staged file, or skip, or      *)
(* download) and then the decompressed file (phase B).  The tasks are run  *)
(* by join_all on one executor task, so a task runs without interruption   *)
(* by a sibling from one .await to the next; the filesystem is observed,   *)
(* and the process may be killed, between any two filesystem calls.        *)
(*                                                                         *)
(* Functions of the first application (src-tauri/src) follow, each with    *)
(* its own variables and specification: retry_async, the sequential        *)
(* download_and_decompress_files, DbManager::ensure_database,              *)
(* parse_kraken_uniq_report and build_taxonomy_hierarchy.                  *)
(***************************************************************************)
EXTENDS Naturals, Sequences, FiniteSets, TLC

\* ------------------------------------------------------------------ bounds
\* number of invocations of download_resources in one behaviour
MaxRuns == 2

\* ------------------------------------------------------------------ data
\* Contents are sequences of chunks.  A gzip stream is made of deflate data
\* ("a"), the last block with the trailer ("z") and bytes that are no valid
\* gzip ("x"); the decoder turns "a" into "A" and "z" into "Z".
Chunk == {"a", "z", "x"}

\* the content the catalog's digests were computed from
GoodBody == <<"a", "z">>

\* what the server may answer with a success status: the right content, a
\* corrupt one, and another well-formed gzip stream
Bodies == {GoodBody, <<"a", "x">>, <<"z">>}

\* the number of bytes of a chunk and of a content
ChunkLen(c) == IF c = "a" THEN 2 ELSE 1

RECURSIVE Bytes(_)
Bytes(data) == IF data = <<>> THEN 0 ELSE ChunkLen(Head(data)) + Bytes(Tail(data))

\* no Content-Length header
NoLength == <<>>

\* response.content_length(): the server sends the bodies of more than one
\* chunk with their Content-Length and the one-chunk body without the header
ContentLength(b) == IF Len(b) > 1 THEN <<Bytes(b)>> ELSE NoLength

\* `.unwrap_or(0)`
UnwrapOr0(opt) == IF opt = NoLength THEN 0 ELSE opt[1]

\* SHA-256 followed by hex::encode: injective on contents, never the empty string
Sha256Hex(data) == <<"sha256">> \o data

\* an empty checksum string in the catalog
EmptyDigest == <<>>

\* the files: ex = the path exists, data = its bytes on disk, done = the
\* bytes on disk are all the bytes its writer had to write (the whole response
\* body, the whole output of the decoder)
NoFile == [ex |-> FALSE, data |-> <<>>, done |-> FALSE]
NewFile == [ex |-> TRUE, data |-> <<>>, done |-> FALSE]

\* GzDecoder over one chunk of the compressed file
Inflate(c) == IF c = "a" THEN "A" ELSE "Z"

RECURSIVE Gunzip(_)
\* the whole output of GzDecoder for a well-formed stream
Gunzip(d) ==
    IF d = <<>> THEN <<>>
    ELSE IF Head(d) = "z" THEN <<"Z">>
    ELSE <<Inflate(Head(d))>> \o Gunzip(Tail(d))

GoodFinal == Gunzip(GoodBody)

\* ------------------------------------------------------------------ catalog
Res == {1, 2}

\* the four paths of a resource: committed compressed, staged compressed,
\* committed final, staged final
Kind == {"c", "cu", "f", "fu"}

\* an entry of taxdb_config.toml; a file name is its stem followed by its
\* extensions, <<"n1", ".gz">> is "n1.gz"
Entry(name, comp, ckc, ckd) ==
    [file_name |-> name, compressed |-> comp,
     checksum_compressed |-> ckc, checksum_decompressed |-> ckd]

\* the catalogs taxdb_config.toml may hold (entries with pairwise disjoint paths)
Catalogs ==
    { <<Entry(<<"n1", ".gz">>, TRUE, Sha256Hex(GoodBody), Sha256Hex(GoodFinal)),
        Entry(<<"n2">>, FALSE, EmptyDigest, EmptyDigest)>>,
      <<Entry(<<"n1", ".gz">>, TRUE, EmptyDigest, EmptyDigest),
        Entry(<<"n2">>, FALSE, Sha256Hex(GoodBody), EmptyDigest)>>,
      <<Entry(<<"n1", ".gz">>, TRUE, Sha256Hex(GoodBody), EmptyDigest),
        Entry(<<"n2", ".gz">>, TRUE, EmptyDigest, Sha256Hex(GoodFinal))>> }

\* `file_name.ends_with(".gz")`
EndsWithGz(name) == name # <<>> /\ name[Len(name)] = ".gz"

RECURSIVE TrimEndMatchesGz(_)
\* `file_name.trim_end_matches(".gz")`: every trailing ".gz" is removed
TrimEndMatchesGz(name) ==
    IF EndsWithGz(name) THEN TrimEndMatchesGz(SubSeq(name, 1, Len(name) - 1))
    ELSE name

\* decompressed_name of load_resource_configs
DecompressedName(e) ==
    IF e.compressed /\ EndsWithGz(e.file_name)
    THEN TrimEndMatchesGz(e.file_name)
    ELSE e.file_name

\* resource_dir.join(name)
Join(name) == <<"resource_dir">> \o name

\* ResourceFiles::file_path as load_resource_configs sets it
FilePath(e) == Join(DecompressedName(e))

\* the four paths the task of an entry derives
PathOf(e, k) ==
    IF k = "c" THEN Join(e.file_name)
    ELSE IF k = "cu" THEN Join(e.file_name \o <<"_unchecked">>)
    ELSE IF k = "f" THEN FilePath(e)
    ELSE FilePath(e) \o <<"_unchecked">>

VARIABLES
    cat,      \* the catalog (constant over a behaviour)
    fs,       \* fs[r][k]: the file at path k of resource r
    orch,     \* download_resources: "idle", "running", "returned"
    ret,      \* what the last download_resources returned
    runs,     \* number of runs started
    pc,       \* pc[r]: where task r stands
    result,   \* result[r]: "none", "ok" or the error the task returned
    body,     \* body[r]: chunks of the response not yet received
    wbuf,     \* wbuf[r]: bytes held by the BufWriter of the staged compressed file
    src,      \* src[r]: bytes of the compressed file not yet read by the decoder
    obuf,     \* obuf[r]: bytes held by the BufWriter of the staged final file
    nGet,     \* nGet[r]: HTTP requests sent in this run
    nHash,    \* nHash[r]: digest computations started in this run
    nDecomp,  \* nDecomp[r]: decompressions started in this run
    trace,    \* trace[r]: filesystem operations of the task in this run
    fault,    \* fault[r]: an I/O, network or emit failure hit the task in this run
    served,   \* served[r]: the body of the success response of this run, if any
    fs0,      \* the filesystem when the current run started (the filesystem
              \* as it is when the process was killed and no run is under way)
    order,    \* the tasks that have returned in this run, in the order in time
              \* in which they returned
    downloaded,  \* downloaded[r]: `downloaded` of the download loop
    total_size,  \* total_size[r]: `total_size` of the download, then of the decompression
    bytes_read,  \* bytes_read[r]: CountingReader::bytes_read
    emitted      \* emitted[r]: the payloads of the progress events the task
                 \* handed to app_handle.emit in this run

\* the state of download_resources
downloader == <<cat, fs, orch, ret, runs, pc, result, body, wbuf, src, obuf,
                nGet, nHash, nDecomp, trace, fault, served, fs0, order,
                downloaded, total_size, bytes_read, emitted>>

\* supabase_connector.rs, retry_async
VARIABLES
    retries,    \* `retries`: the retries left
    delay,      \* `delay`: milliseconds of the next sleep
    factor,     \* `factor`
    stage,      \* where retry_async stands: "call", "sleep", "returned" ("idle": not called)
    returned,   \* what retry_async returned
    given,      \* the arguments retry_async was called with
    called,     \* the results of the calls of func, in order
    slept       \* the milliseconds of the sleeps, in order

retry == <<retries, delay, factor, stage, returned, given, called, slept>>

\* splashscreen/mod.rs of the first application, download_and_decompress_files
VARIABLES
    resources,  \* `resources`: the list of ResourceFiles
    resource,   \* the index of `resource` of the for loop
    phase,      \* where the function stands: "get", "verify_c", "decompress",
                \* "verify_d", "end", "returned" ("idle": not called)
    outcome,    \* what the function returned
    files,      \* files[i]: the files at file_name (c) and file_path (f) of resource i
    writer,     \* the bytes held by `writer`, the BufWriter of the compressed file
    computed    \* computed[i]: what sha256_of_file returned for the two files of i

legacy == <<resources, resource, phase, outcome, files, writer, computed>>

\* the functions of the application that are called apart from
\* download_resources
\* db_manager.rs, DbManager::ensure_database
VARIABLES
    db_path,    \* the directory at `db_path`: whether it exists and how many
                \* entries of the archive were unpacked into it
    temp_file,  \* the file at `temp_file`: whether it exists and how many
                \* chunks of the archive it holds
    db_stage,   \* where ensure_database stands: "download", "extract",
                \* "returned" ("idle": no call under way)
    db_result,  \* what the last call of ensure_database returned
    db_calls    \* the number of calls of ensure_database

database == <<db_path, temp_file, db_stage, db_result, db_calls>>

\* krakenuniq/parse_kraken_uniq_report.rs, parse_kraken_uniq_report
VARIABLES
    report_content,  \* `report_content`: the lines of the report
    parsed           \* <<what parse_kraken_uniq_report did with it>> (<<>>: not called)

report == <<report_content, parsed>>

\* build_taxonomy_hierarchy.rs, build_taxonomy_hierarchy
VARIABLES
    nodes,      \* `nodes`: the TaxonomyNodes given, in order
    hierarchy   \* <<the root nodes returned>> (<<>>: not called)

taxonomy == <<nodes, hierarchy>>

others == <<retry, legacy, database, report, taxonomy>>

vars == <<downloader, others>>

locals == <<body, wbuf, src, obuf, downloaded, total_size, bytes_read>>
ghost == <<nGet, nHash, nDecomp, trace, fault, emitted>>

\* no success response was received
NoBody == <<"none">>

EmptyFs == [r \in Res |-> [k \in Kind |-> NoFile]]

\* retry_async is not called
RetryIdle ==
    /\ retries = 0
    /\ delay = 0
    /\ factor = 0
    /\ stage = "idle"
    /\ returned = <<>>
    /\ given = <<>>
    /\ called = <<>>
    /\ slept = <<>>

\* download_and_decompress_files is not called
LegacyIdle ==
    /\ resources = <<>>
    /\ resource = 0
    /\ phase = "idle"
    /\ outcome = <<>>
    /\ files = <<>>
    /\ writer = <<>>
    /\ computed = <<>>

\* ensure_database was never called: no directory, no temporary file
DatabaseIdle ==
    /\ db_path = [ex |-> FALSE, entries |-> 0]
    /\ temp_file = [ex |-> FALSE, chunks |-> 0]
    /\ db_stage = "idle"
    /\ db_result = "none"
    /\ db_calls = 0

\* parse_kraken_uniq_report is not called
ReportIdle ==
    /\ report_content = <<>>
    /\ parsed = <<>>

\* build_taxonomy_hierarchy is not called
TaxonomyIdle ==
    /\ nodes = <<>>
    /\ hierarchy = <<>>

OthersIdle ==
    RetryIdle /\ LegacyIdle /\ DatabaseIdle /\ ReportIdle /\ TaxonomyIdle

Init ==
    /\ cat \in Catalogs
    /\ fs = EmptyFs
    /\ fs0 = EmptyFs
    /\ orch = "idle"
    /\ ret = "none"
    /\ runs = 0
    /\ pc = [r \in Res |-> "idle"]
    /\ result = [r \in Res |-> "none"]
    /\ body = [r \in Res |-> <<>>]
    /\ wbuf = [r \in Res |-> <<>>]
    /\ src = [r \in Res |-> <<>>]
    /\ obuf = [r \in Res |-> <<>>]
    /\ downloaded = [r \in Res |-> 0]
    /\ total_size = [r \in Res |-> 0]
    /\ bytes_read = [r \in Res |-> 0]
    /\ emitted = [r \in Res |-> <<>>]
    /\ nGet = [r \in Res |-> 0]
    /\ nHash = [r \in Res |-> 0]
    /\ nDecomp = [r \in Res |-> 0]
    /\ trace = [r \in Res |-> <<>>]
    /\ fault = [r \in Res |-> FALSE]
    /\ served = [r \in Res |-> NoBody]
    /\ order = <<>>
    /\ OthersIdle

\* download_resources is not invoked
DownloaderIdle ==
    /\ cat = <<>>
    /\ fs = EmptyFs
    /\ fs0 = EmptyFs
    /\ orch = "idle"
    /\ ret = "none"
    /\ runs = 0
    /\ pc = [r \in Res |-> "idle"]
    /\ result = [r \in Res |-> "none"]
    /\ body = <<>>
    /\ wbuf = <<>>
    /\ src = <<>>
    /\ obuf = <<>>
    /\ downloaded = <<>>
    /\ total_size = <<>>
    /\ bytes_read = <<>>
    /\ nGet = <<>>
    /\ nHash = <<>>
    /\ nDecomp = <<>>
    /\ trace = <<>>
    /\ fault = <<>>
    /\ emitted = <<>>
    /\ served = <<>>
    /\ order = <<>>

\* ------------------------------------------------------------------ helpers
\* a task is at an .await (or not yet polled, or finished): join_all may poll
\* a sibling
Parked == {"idle", "A_probe", "A_resp", "A_next", "done"}

\* join_all polls task r: no sibling is in the middle of synchronous code
Scheduled(r) ==
    /\ orch = "running"
    /\ \A q \in Res \ {r} : pc[q] \in Parked

Goto(r, l) ==
    /\ pc' = [pc EXCEPT ![r] = l]
    /\ order' = order
    /\ UNCHANGED others

\* the task's async block returns Ok(()) or Err(e)
Return(r, e) ==
    /\ pc' = [pc EXCEPT ![r] = "done"]
    /\ result' = [result EXCEPT ![r] = e]
    /\ order' = Append(order, r)
    /\ UNCHANGED others

Counted(r, g, h, d, ops, flt) ==
    /\ nGet' = [nGet EXCEPT ![r] = @ + g]
    /\ nHash' = [nHash EXCEPT ![r] = @ + h]
    /\ nDecomp' = [nDecomp EXCEPT ![r] = @ + d]
    /\ trace' = [trace EXCEPT ![r] = @ \o ops]
    /\ fault' = [fault EXCEPT ![r] = @ \/ flt]

\* app_handle.emit(event, payload)
Emit(r, payload) == emitted' = [emitted EXCEPT ![r] = Append(@, payload)]

\* a step that emits no progress event
Ghost(r, g, h, d, ops, flt) ==
    /\ Counted(r, g, h, d, ops, flt)
    /\ emitted' = emitted

\* faulty variant: the emptiness of the checksum is not looked at, every file is hashed
ChecksumConfiguredAlways(ck) == TRUE

\* `!res.checksum_compressed.is_empty()` / `!res.checksum_decompressed.is_empty()`
ChecksumConfigured(ck) == ck # EmptyDigest

\* faulty variant: the computed digest is not compared with the expected one
ChecksumMatchesAlways(hash, ck) == TRUE

\* `hash != res.checksum_...` is false
ChecksumMatches(hash, ck) == hash = ck

\* fs[r] keeps the file of a path at one place: when the final path of the
\* entry is its compressed path (and so the staged final path its staged
\* compressed path), the file is the one at "c" (at "cu")
At(r, k) ==
    IF k = "f" /\ PathOf(cat[r], "f") = PathOf(cat[r], "c") THEN "c"
    ELSE IF k = "fu" /\ PathOf(cat[r], "fu") = PathOf(cat[r], "cu") THEN "cu"
    ELSE k

\* the file at path k of the entry r in the filesystem f
File(f, r, k) == f[r][At(r, k)]

\* faulty variant: the staged file is copied to the committed path and stays
RenamedKeepingSource(f, r, from, to) == [f EXCEPT ![r][to] = f[r][from]]

\* fs::rename(from, to): the file at `to` becomes the file that was at `from`
Renamed(f, r, from, to) ==
    [f EXCEPT ![r][At(r, to)] = f[r][At(r, from)], ![r][At(r, from)] = NoFile]

\* faulty variant: the staged file is not removed
RemovedNothing(f, r, k) == f

\* faulty variant: the staged path does not depend on the entry, the file
\* of the same kind of every entry is removed
RemovedOfAll(f, r, k) == [q \in Res |-> [f[q] EXCEPT ![k] = NoFile]]

\* fs::remove_file(path)
Removed(f, r, k) == [f EXCEPT ![r][At(r, k)] = NoFile]

\* the staged file at path k holds all its writer had to write: the body of
\* the response, or the decoder's output up to the end of the stream
Complete(r, k, data) ==
    IF k = "cu" THEN data = served[r]
    ELSE data # <<>> /\ data[Len(data)] = "Z"

\* faulty variant: the writer was opened on the committed path, which it truncated
FlushedToCommitted(f, r, k, buf, flushed) ==
    IF flushed
    THEN [f EXCEPT ![r][IF k = "cu" THEN "c" ELSE "f"] =
                       [ex |-> TRUE, data |-> buf, done |-> FALSE]]
    ELSE f

\* BufWriter flushing `buf` into the file at path k (flushed = the write succeeded)
Flushed(f, r, k, buf, flushed) ==
    IF flushed
    THEN [f EXCEPT ![r][At(r, k)].data = @ \o buf,
                   ![r][At(r, k)].done = Complete(r, k, File(f, r, k).data \o buf)]
    ELSE f

\* ------------------------------------------------------------------ phase A
\* faulty variant: the staged compressed path is not probed
NeedCompressedVerificationNever(r) == FALSE

\* faulty variant: a committed compressed file takes precedence over a staged one
NeedCompressedVerificationIfNotCommitted(r) == fs[r]["cu"].ex /\ ~fs[r]["c"].ex

\* need_compressed_verification
NeedCompressedVerification(r) == fs[r]["cu"].ex

\* faulty variant: a committed compressed file is not recognised
AlreadyVerifiedCompressedNever(r) == FALSE

\* already_verified_compressed
AlreadyVerifiedCompressed(r) == fs[r]["c"].ex /\ ~NeedCompressedVerification(r)

\* the probe of the two compressed paths and the branch taken on it
ProbeCompressed(r) ==
    /\ Scheduled(r)
    /\ pc[r] = "A_probe"
    /\ IF NeedCompressedVerification(r)
       THEN IF ChecksumConfigured(cat[r].checksum_compressed)
            THEN Goto(r, "A_rehash")
            ELSE Goto(r, "A_rename")
       ELSE IF AlreadyVerifiedCompressed(r)
            THEN Goto(r, "B_probe")
            ELSE Goto(r, "A_send")
    /\ UNCHANGED <<cat, fs, orch, ret, runs, result, locals, ghost, fs0, served>>

\* a staged compressed file was found: hash it; on a mismatch or a read
\* error remove it (the removal's own failure is ignored) and go on to phase B
ReverifyCompressed(r) ==
    /\ Scheduled(r)
    /\ pc[r] = "A_rehash"
    /\ \E io \in BOOLEAN, rm \in BOOLEAN :
         IF io /\ ChecksumMatches(Sha256Hex(fs[r]["cu"].data), cat[r].checksum_compressed)
         THEN /\ Goto(r, "A_rename")
              /\ fs' = fs
              /\ Ghost(r, 0, 1, 0, <<"hash_cu">>, FALSE)
         ELSE /\ Goto(r, "B_probe")
              /\ fs' = IF rm THEN Removed(fs, r, "cu") ELSE fs
              /\ Ghost(r, 0, 1, 0, <<"hash_cu", "remove_cu">>, ~io \/ ~rm)
    /\ UNCHANGED <<cat, orch, ret, runs, result, locals, fs0, served>>

\* fs::rename(compressed_unchecked_path, compressed_path)
CommitCompressed(r) ==
    /\ Scheduled(r)
    /\ pc[r] = "A_rename"
    /\ \E ok \in BOOLEAN :
         IF ok
         THEN /\ fs' = Renamed(fs, r, "cu", "c")
              /\ Goto(r, "B_probe")
              /\ result' = result
              /\ Ghost(r, 0, 0, 0, <<"rename_c">>, FALSE)
         ELSE /\ fs' = fs
              /\ Return(r, "rename")
              /\ Ghost(r, 0, 0, 0, <<"rename_c">>, TRUE)
    /\ UNCHANGED <<cat, orch, ret, runs, locals, fs0, served>>

\* client.get(url).send(): the request goes out, the task awaits the response
SendGet(r) ==
    /\ Scheduled(r)
    /\ pc[r] = "A_send"
    /\ Goto(r, "A_resp")
    /\ Ghost(r, 1, 0, 0, <<"get">>, FALSE)
    /\ UNCHANGED <<cat, fs, orch, ret, runs, result, locals, fs0, served>>

\* faulty variant: the staged file is created before the status is looked at
RejectedCreatingStaged(f, r) == [f EXCEPT ![r]["cu"] = NewFile]

\* `if !response.status().is_success() { return Err(..) }` comes before
\* File::create: the files are as they were
Rejected(f, r) == f

\* the response: a transport error, a non-success status, or success with a body
Response(r) ==
    /\ Scheduled(r)
    /\ pc[r] = "A_resp"
    /\ \/ /\ Return(r, "net")
          /\ Ghost(r, 0, 0, 0, <<>>, TRUE)
          /\ UNCHANGED <<fs, body, served, downloaded, total_size>>
       \/ /\ Return(r, "status")
          /\ fs' = Rejected(fs, r)
          /\ Ghost(r, 0, 0, 0, <<>>, TRUE)
          /\ UNCHANGED <<body, served, downloaded, total_size>>
       \/ \E b \in Bodies :
            /\ body' = [body EXCEPT ![r] = b]
            /\ served' = [served EXCEPT ![r] = b]
            /\ total_size' = [total_size EXCEPT ![r] = UnwrapOr0(ContentLength(b))]
            /\ downloaded' = [downloaded EXCEPT ![r] = 0]
            /\ Goto(r, "A_create")
            /\ result' = result
            /\ Ghost(r, 0, 0, 0, <<>>, FALSE)
            /\ fs' = fs
    /\ UNCHANGED <<cat, orch, ret, runs, wbuf, src, obuf, fs0, bytes_read>>

\* BufWriter::new(File::create(compressed_unchecked_path))
CreateStagedCompressed(r) ==
    /\ Scheduled(r)
    /\ pc[r] = "A_create"
    /\ \E ok \in BOOLEAN :
         IF ok
         THEN /\ fs' = [fs EXCEPT ![r]["cu"] = NewFile]
              /\ Goto(r, "A_next")
              /\ result' = result
              /\ Ghost(r, 0, 0, 0, <<"create_cu">>, FALSE)
         ELSE /\ fs' = fs
              /\ Return(r, "create")
              /\ Ghost(r, 0, 0, 0, <<"create_cu">>, TRUE)
    /\ wbuf' = [wbuf EXCEPT ![r] = <<>>]
    /\ UNCHANGED <<cat, orch, ret, runs, body, src, obuf, fs0, served, downloaded, total_size, bytes_read>>

\* stream.next().await: the next chunk, a transport error, or the end of the body
NextChunk(r) ==
    /\ Scheduled(r)
    /\ pc[r] = "A_next"
    /\ IF body[r] = <<>>
       THEN /\ Goto(r, "A_drop")
            /\ UNCHANGED <<fs, result, wbuf, ghost>>
       ELSE \/ /\ Goto(r, "A_write")
               /\ UNCHANGED <<fs, result, wbuf, ghost>>
            \/ \E fl \in BOOLEAN :
                 \* Err: the writer is dropped, which flushes what it can
                 /\ fs' = Flushed(fs, r, "cu", wbuf[r], fl)
                 /\ wbuf' = [wbuf EXCEPT ![r] = <<>>]
                 /\ Return(r, "chunk")
                 /\ Ghost(r, 0, 0, 0, <<>>, TRUE)
    /\ UNCHANGED <<cat, orch, ret, runs, body, src, obuf, fs0, served, downloaded, total_size, bytes_read>>

\* faulty variant: the counter holds the length of the last chunk
CumulatedLastOnly(count, n) == n

\* `downloaded += chunk.len() as u64`, `self.bytes_read += n as u64`
Cumulated(count, n) == count + n

\* writer.write_all(&chunk), then emit("download-progress")
\*   how = "buffer":  the chunk stays in the BufWriter (after flushing what it held)
\*   how = "through": what the BufWriter held and the chunk go to the file
\*   how = "fail":    the write fails
WriteChunk(r) ==
    /\ Scheduled(r)
    /\ pc[r] = "A_write"
    /\ \E how \in {"buffer", "through", "fail"}, em \in BOOLEAN, fl \in BOOLEAN :
         LET c == Head(body[r])
             wrote == IF how = "through" THEN Flushed(fs, r, "cu", wbuf[r] \o <<c>>, TRUE)
                      ELSE IF how = "buffer" THEN Flushed(fs, r, "cu", wbuf[r], TRUE)
                      ELSE fs
             held == IF how = "buffer" THEN <<c>> ELSE <<>>
             payload == [event |-> "download-progress",
                         downloaded |-> Cumulated(downloaded[r], ChunkLen(c)),
                         total_size |-> total_size[r]]
         IN  IF how = "fail"
             THEN /\ fs' = fs
                  /\ wbuf' = [wbuf EXCEPT ![r] = <<>>]
                  /\ downloaded' = downloaded
                  /\ Return(r, "write")
                  /\ Ghost(r, 0, 0, 0, <<>>, TRUE)
             ELSE IF em
             THEN /\ fs' = wrote
                  /\ wbuf' = [wbuf EXCEPT ![r] = held]
                  /\ downloaded' = [downloaded EXCEPT ![r] = payload.downloaded]
                  /\ Goto(r, "A_next")
                  /\ result' = result
                  /\ Counted(r, 0, 0, 0, <<"write_cu">>, FALSE)
                  /\ Emit(r, payload)
             ELSE \* the emit error is returned; the writer is dropped
                  /\ fs' = Flushed(wrote, r, "cu", held, fl)
                  /\ wbuf' = [wbuf EXCEPT ![r] = <<>>]
                  /\ downloaded' = [downloaded EXCEPT ![r] = payload.downloaded]
                  /\ Return(r, "emit")
                  /\ Counted(r, 0, 0, 0, <<>>, TRUE)
                  /\ Emit(r, payload)
    /\ body' = [body EXCEPT ![r] = Tail(@)]
    /\ UNCHANGED <<cat, orch, ret, runs, src, obuf, fs0, served, total_size, bytes_read>>

\* drop(writer): the BufWriter flushes; an error of that flush is lost
DropWriter(r) ==
    /\ Scheduled(r)
    /\ pc[r] = "A_drop"
    /\ \E fl \in BOOLEAN :
         /\ fs' = Flushed(fs, r, "cu", wbuf[r], fl)
         /\ Ghost(r, 0, 0, 0, <<>>, ~fl)
    /\ wbuf' = [wbuf EXCEPT ![r] = <<>>]
    /\ IF ChecksumConfigured(cat[r].checksum_compressed)
       THEN Goto(r, "A_hash")
       ELSE Goto(r, "A_rename")
    /\ UNCHANGED <<cat, orch, ret, runs, result, body, src, obuf, fs0, served, downloaded, total_size, bytes_read>>

\* the freshly downloaded staged file is hashed; a mismatch or a read error
\* removes it and fails the task
VerifyCompressed(r) ==
    /\ Scheduled(r)
    /\ pc[r] = "A_hash"
    /\ \E io \in BOOLEAN, rm \in BOOLEAN :
         IF io /\ ChecksumMatches(Sha256Hex(fs[r]["cu"].data), cat[r].checksum_compressed)
         THEN /\ Goto(r, "A_rename")
              /\ fs' = fs
              /\ result' = result
              /\ Ghost(r, 0, 1, 0, <<"hash_cu">>, FALSE)
         ELSE /\ Return(r, IF io THEN "mismatch_c" ELSE "hashio_c")
              /\ fs' = IF rm THEN Removed(fs, r, "cu") ELSE fs
              /\ Ghost(r, 0, 1, 0, <<"hash_cu", "remove_cu">>, ~io \/ ~rm)
    /\ UNCHANGED <<cat, orch, ret, runs, locals, fs0, served>>


\* ------------------------------------------------------------------ phase B
\* need_final_verification
NeedFinalVerification(r) == File(fs, r, "fu").ex

\* faulty variant: a committed final file is not recognised
AlreadyVerifiedFinalNever(r) == FALSE

\* already_verified_final
AlreadyVerifiedFinal(r) == File(fs, r, "f").ex /\ ~NeedFinalVerification(r)

\* `if res.compressed`, the probe of the two final paths and the branch taken
ProbeFinal(r) ==
    /\ Scheduled(r)
    /\ pc[r] = "B_probe"
    /\ IF ~cat[r].compressed
       THEN Return(r, "ok")
       ELSE IF NeedFinalVerification(r)
       THEN /\ result' = result
            /\ IF ChecksumConfigured(cat[r].checksum_decompressed)
               THEN Goto(r, "B_rehash")
               ELSE Goto(r, "B_rename")
       ELSE IF AlreadyVerifiedFinal(r)
       THEN Return(r, "ok")
       ELSE /\ result' = result
            /\ Goto(r, "B_open")
    /\ UNCHANGED <<cat, fs, orch, ret, runs, locals, ghost, fs0, served>>

\* a staged final file was found: hash it; on a match go on to the rename, on
\* a mismatch or a read error remove it, and the task ends with Ok(())
ReverifyFinal(r) ==
    /\ Scheduled(r)
    /\ pc[r] = "B_rehash"
    /\ \E io \in BOOLEAN, rm \in BOOLEAN :
         IF io /\ ChecksumMatches(Sha256Hex(File(fs, r, "fu").data), cat[r].checksum_decompressed)
         THEN /\ Goto(r, "B_rename")
              /\ fs' = fs
              /\ result' = result
              /\ Ghost(r, 0, 1, 0, <<"hash_fu">>, FALSE)
         ELSE /\ Return(r, "ok")
              /\ fs' = IF rm THEN Removed(fs, r, "fu") ELSE fs
              /\ Ghost(r, 0, 1, 0, <<"hash_fu", "remove_fu">>, ~io \/ ~rm)
    /\ UNCHANGED <<cat, orch, ret, runs, locals, fs0, served>>

\* faulty variant: the existence of the compressed file is not checked
CompressedMissingNever(r) == FALSE

\* `!compressed_path.exists()`
CompressedMissing(r) == ~fs[r]["c"].ex

\* `if !compressed_path.exists()`, File::open(compressed_path), metadata()
OpenCompressed(r) ==
    /\ Scheduled(r)
    /\ pc[r] = "B_open"
    /\ IF CompressedMissing(r)
       THEN /\ Return(r, "missing")
            /\ src' = src
            /\ UNCHANGED <<total_size, bytes_read>>
            /\ Ghost(r, 0, 0, 0, <<>>, FALSE)
       ELSE \E ok \in BOOLEAN :
              IF ok
              THEN /\ src' = [src EXCEPT ![r] = fs[r]["c"].data]
                   /\ total_size' = [total_size EXCEPT ![r] = Bytes(fs[r]["c"].data)]
                   /\ bytes_read' = [bytes_read EXCEPT ![r] = 0]
                   /\ Goto(r, "B_create")
                   /\ result' = result
                   /\ Ghost(r, 0, 0, 0, <<>>, FALSE)
              ELSE /\ src' = src
                   /\ UNCHANGED <<total_size, bytes_read>>
                   /\ Return(r, "open")
                   /\ Ghost(r, 0, 0, 0, <<>>, TRUE)
    /\ UNCHANGED <<cat, fs, orch, ret, runs, body, wbuf, obuf, fs0, served, downloaded>>

\* GzDecoder::new(counting_reader); BufWriter::new(File::create(final_unchecked_path))
CreateStagedFinal(r) ==
    /\ Scheduled(r)
    /\ pc[r] = "B_create"
    /\ \E ok \in BOOLEAN :
         IF ok
         THEN /\ fs' = [fs EXCEPT ![r][At(r, "fu")] = NewFile]
              /\ Goto(r, "B_copy")
              /\ result' = result
              /\ Ghost(r, 0, 0, 1, <<"create_fu">>, FALSE)
         ELSE /\ fs' = fs
              /\ Return(r, "create")
              /\ Ghost(r, 0, 0, 0, <<"create_fu">>, TRUE)
    /\ obuf' = [obuf EXCEPT ![r] = <<>>]
    /\ UNCHANGED <<cat, orch, ret, runs, body, wbuf, src, fs0, served, downloaded, total_size, bytes_read>>

\* faulty variant: the copy leaves in the BufWriter what the decoder produced
CopyFlushedNothing(f, r, buf) == f

\* std::io::copy writes out what the BufWriter of the staged final file holds
CopyFlushed(f, r, buf) == Flushed(f, r, "fu", buf, TRUE)

\* self.inner.read(buf) of the BufReader over the compressed file of which
\* `remaining` is still unread: an error, 0 bytes at the end of the file, or
\* the next chunk
InnerRead(remaining, io) ==
    IF ~io THEN [err |-> TRUE, n |-> 0, data |-> <<>>]
    ELSE IF remaining = <<>> THEN [err |-> FALSE, n |-> 0, data |-> <<>>]
    ELSE [err |-> FALSE, n |-> ChunkLen(Head(remaining)), data |-> <<Head(remaining)>>]

\* `let n = self.inner.read(buf)?; .. Ok(n)`
Passed(inner) == inner

\* faulty variant: an event is emitted for every read that returns Ok, one
\* of 0 bytes included
CountingReaderReadEmittingAlways(inner, count, total) ==
    LET after == IF inner.err THEN count ELSE Cumulated(count, inner.n)
    IN  [res |-> Passed(inner),
         bytes_read |-> after,
         events |-> IF ~inner.err
                    THEN << [event |-> "decompression-progress",
                             compressed_read |-> after,
                             total_compressed_size |-> total] >>
                    ELSE <<>>]

\* CountingReader::read: the result of the inner read, the counter and the
\* events emitted
CountingReaderRead(inner, count, total) ==
    LET counts == ~inner.err /\ inner.n > 0
        after == IF counts THEN Cumulated(count, inner.n) ELSE count
    IN  [res |-> Passed(inner),
         bytes_read |-> after,
         events |-> IF counts
                    THEN << [event |-> "decompression-progress",
                             compressed_read |-> after,
                             total_compressed_size |-> total] >>
                    ELSE <<>>]

\* one turn of the loop of std::io::copy into a BufWriter: what the BufWriter
\* holds is flushed before the decoder is read again; the decoder fails on
\* bytes that are no gzip and on a stream that ends before its trailer
CopyStep(r) ==
    /\ Scheduled(r)
    /\ pc[r] = "B_copy"
    /\ IF obuf[r] # <<>>
       THEN \E ok \in BOOLEAN, fl \in BOOLEAN :
              IF ok
              THEN /\ fs' = CopyFlushed(fs, r, obuf[r])
                   /\ Goto(r, "B_copy")
                   /\ result' = result
                   /\ Ghost(r, 0, 0, 0, <<>>, FALSE)
                   /\ obuf' = [obuf EXCEPT ![r] = <<>>]
                   /\ UNCHANGED <<src, bytes_read>>
              ELSE \* the write fails; output_file is dropped and tries once more
                   /\ fs' = Flushed(fs, r, "fu", obuf[r], fl)
                   /\ Return(r, "decomp")
                   /\ Ghost(r, 0, 0, 0, <<>>, TRUE)
                   /\ obuf' = [obuf EXCEPT ![r] = <<>>]
                   /\ UNCHANGED <<src, bytes_read>>
       ELSE \E io \in {b \in BOOLEAN : b \/ src[r] # <<>>} :
              LET rd == CountingReaderRead(InnerRead(src[r], io), bytes_read[r], total_size[r])
              IN  /\ bytes_read' = [bytes_read EXCEPT ![r] = rd.bytes_read]
                  /\ src' = [src EXCEPT ![r] = SubSeq(@, Len(rd.res.data) + 1, Len(@))]
                  /\ emitted' = [emitted EXCEPT ![r] = @ \o rd.events]
                  /\ fs' = fs
                  /\ IF rd.res.err
                     THEN \* the read of the compressed file fails
                          /\ Return(r, "decomp")
                          /\ Counted(r, 0, 0, 0, <<>>, TRUE)
                          /\ obuf' = obuf
                     ELSE IF rd.res.n = 0 \/ rd.res.data = <<"x">>
                     THEN \* the decoder fails
                          /\ Return(r, "decomp")
                          /\ Counted(r, 0, 0, 0, <<>>, FALSE)
                          /\ obuf' = obuf
                     ELSE /\ obuf' = [obuf EXCEPT ![r] = <<Inflate(rd.res.data[1])>>]
                          /\ Goto(r, IF rd.res.data = <<"z">> THEN "B_drain" ELSE "B_copy")
                          /\ result' = result
                          /\ Counted(r, 0, 0, 0, <<"write_fu">>, FALSE)
    /\ UNCHANGED <<cat, orch, ret, runs, body, wbuf, fs0, served, downloaded, total_size>>

\* the last turns of std::io::copy: the output of the last block is flushed,
\* the decoder reports the end of the stream and the copy returns Ok
CopyEnd(r) ==
    /\ Scheduled(r)
    /\ pc[r] = "B_drain"
    /\ \E ok \in BOOLEAN, fl \in BOOLEAN :
         IF ok
         THEN /\ fs' = CopyFlushed(fs, r, obuf[r])
              /\ IF ChecksumConfigured(cat[r].checksum_decompressed)
                 THEN Goto(r, "B_hash")
                 ELSE Goto(r, "B_rename")
              /\ result' = result
              /\ Ghost(r, 0, 0, 0, <<>>, FALSE)
         ELSE /\ fs' = Flushed(fs, r, "fu", obuf[r], fl)
              /\ Return(r, "decomp")
              /\ Ghost(r, 0, 0, 0, <<>>, TRUE)
    /\ obuf' = [obuf EXCEPT ![r] = <<>>]
    /\ UNCHANGED <<cat, orch, ret, runs, body, wbuf, src, fs0, served, downloaded, total_size, bytes_read>>

\* the freshly decompressed staged file is hashed; a mismatch or a read error
\* removes it and fails the task
VerifyFinal(r) ==
    /\ Scheduled(r)
    /\ pc[r] = "B_hash"
    /\ \E io \in BOOLEAN, rm \in BOOLEAN :
         IF io /\ ChecksumMatches(Sha256Hex(File(fs, r, "fu").data), cat[r].checksum_decompressed)
         THEN /\ Goto(r, "B_rename")
              /\ fs' = fs
              /\ result' = result
              /\ Ghost(r, 0, 1, 0, <<"hash_fu">>, FALSE)
         ELSE /\ Return(r, IF io THEN "mismatch_f" ELSE "hashio_f")
              /\ fs' = IF rm THEN Removed(fs, r, "fu") ELSE fs
              /\ Ghost(r, 0, 1, 0, <<"hash_fu", "remove_fu">>, ~io \/ ~rm)
    /\ UNCHANGED <<cat, orch, ret, runs, locals, fs0, served>>

\* fs::rename(final_unchecked_path, final_path); the task ends with Ok(())
CommitFinal(r) ==
    /\ Scheduled(r)
    /\ pc[r] = "B_rename"
    /\ \E ok \in BOOLEAN :
         IF ok
         THEN /\ fs' = Renamed(fs, r, "fu", "f")
              /\ Return(r, "ok")
              /\ Ghost(r, 0, 0, 0, <<"rename_f">>, FALSE)
         ELSE /\ fs' = fs
              /\ Return(r, "rename")
              /\ Ghost(r, 0, 0, 0, <<"rename_f">>, TRUE)
    /\ UNCHANGED <<cat, orch, ret, runs, locals, fs0, served>>

\* ------------------------------------------------------------------ orchestrator
\* download_resources is invoked: the catalog is loaded and one task per
\* entry is handed to join_all
Invoked ==
    /\ orch \in {"idle", "returned"}
    /\ orch' = "running"
    /\ runs' = runs + 1
    /\ ret' = "none"
    /\ pc' = [r \in Res |-> "A_probe"]
    /\ result' = [r \in Res |-> "none"]
    /\ body' = [r \in Res |-> <<>>]
    /\ wbuf' = [r \in Res |-> <<>>]
    /\ src' = [r \in Res |-> <<>>]
    /\ obuf' = [r \in Res |-> <<>>]
    /\ downloaded' = [r \in Res |-> 0]
    /\ total_size' = [r \in Res |-> 0]
    /\ bytes_read' = [r \in Res |-> 0]
    /\ emitted' = [r \in Res |-> <<>>]
    /\ nGet' = [r \in Res |-> 0]
    /\ nHash' = [r \in Res |-> 0]
    /\ nDecomp' = [r \in Res |-> 0]
    /\ trace' = [r \in Res |-> <<>>]
    /\ fault' = [r \in Res |-> FALSE]
    /\ served' = [r \in Res |-> NoBody]
    /\ order' = <<>>
    /\ fs0' = fs
    /\ UNCHANGED <<cat, fs, others>>

\* download_resources is invoked, a bounded number of times
StartRun ==
    /\ runs < MaxRuns
    /\ Invoked

\* faulty variant: the results of the tasks are not looked at
FirstErrorIgnored(results) == "ok"

\* faulty variant: the results are scanned from the end of the catalog
FirstErrorFromEnd(results) ==
    IF \A r \in Res : results[r] = "ok"
    THEN "ok"
    ELSE results[CHOOSE r \in Res :
                   /\ results[r] # "ok"
                   /\ \A q \in Res : results[q] # "ok" => r >= q]

\* `for res in results { if let Err(e) = res { return Err(e) } }`
FirstError(results) ==
    IF \A r \in Res : results[r] = "ok"
    THEN "ok"
    ELSE results[CHOOSE r \in Res :
                   /\ results[r] # "ok"
                   /\ \A q \in Res : results[q] # "ok" => r <= q]

\* faulty variant: the first failure ends the wait (as try_join_all would)
JoinedOnFirstError == \/ \A r \in Res : pc[r] = "done"
                      \/ \E r \in Res : pc[r] = "done" /\ result[r] # "ok"

\* join_all(tasks) is ready when every task has returned, Ok or Err
Joined == \A r \in Res : pc[r] = "done"

\* join_all(tasks).await has every task's result; download_resources returns
JoinAll ==
    /\ orch = "running"
    /\ Joined
    /\ orch' = "returned"
    /\ ret' = FirstError(result)
    /\ UNCHANGED <<cat, fs, runs, pc, result, locals, ghost, fs0, served, order, others>>

\* the process is killed during a run: what the tasks and their BufWriters
\* hold is lost, the files stay as they are
Crash ==
    /\ orch = "running"
    /\ orch' = "idle"
    /\ pc' = [r \in Res |-> "idle"]
    /\ result' = [r \in Res |-> "none"]
    /\ body' = [r \in Res |-> <<>>]
    /\ wbuf' = [r \in Res |-> <<>>]
    /\ src' = [r \in Res |-> <<>>]
    /\ obuf' = [r \in Res |-> <<>>]
    /\ downloaded' = [r \in Res |-> 0]
    /\ total_size' = [r \in Res |-> 0]
    /\ bytes_read' = [r \in Res |-> 0]
    /\ emitted' = [r \in Res |-> <<>>]
    /\ nGet' = [r \in Res |-> 0]
    /\ nHash' = [r \in Res |-> 0]
    /\ nDecomp' = [r \in Res |-> 0]
    /\ trace' = [r \in Res |-> <<>>]
    /\ fault' = [r \in Res |-> FALSE]
    /\ served' = [r \in Res |-> NoBody]
    /\ order' = <<>>
    /\ fs0' = fs
    /\ UNCHANGED <<cat, fs, ret, runs, others>>

Task(r) ==
    \/ ProbeCompressed(r) \/ ReverifyCompressed(r) \/ CommitCompressed(r)
    \/ SendGet(r) \/ Response(r) \/ CreateStagedCompressed(r)
    \/ NextChunk(r) \/ WriteChunk(r) \/ DropWriter(r) \/ VerifyCompressed(r)
    \/ ProbeFinal(r) \/ ReverifyFinal(r) \/ OpenCompressed(r)
    \/ CreateStagedFinal(r) \/ CopyStep(r) \/ CopyEnd(r)
    \/ VerifyFinal(r) \/ CommitFinal(r)

Next == StartRun \/ JoinAll \/ Crash \/ \E r \in Res : Task(r)

Spec == Init /\ [][Next]_vars

\* ------------------------------------------------------------------ the catalog file
\* faulty variant: the error of the loader is dropped and the tasks are built
AfterLoadIgnoringError(found) == "running"

\* `load_resource_configs(&resource_dir).map_err(..)?`: with the catalog the
\* tasks are built and run, without it download_resources returns at once
AfterLoad(found) == IF found THEN "running" ELSE "returned"

\* download_resources is invoked and taxdb_config.toml is not in the resource
\* directory: load_resource_configs returns Err
CatalogMissing ==
    /\ orch \in {"idle", "returned"}
    /\ runs < MaxRuns
    /\ runs' = runs + 1
    /\ orch' = AfterLoad(FALSE)
    /\ ret' = "config"
    /\ pc' = [r \in Res |-> IF orch' = "running" THEN "A_probe" ELSE "idle"]
    /\ result' = [r \in Res |-> "none"]
    /\ body' = [r \in Res |-> <<>>]
    /\ wbuf' = [r \in Res |-> <<>>]
    /\ src' = [r \in Res |-> <<>>]
    /\ obuf' = [r \in Res |-> <<>>]
    /\ downloaded' = [r \in Res |-> 0]
    /\ total_size' = [r \in Res |-> 0]
    /\ bytes_read' = [r \in Res |-> 0]
    /\ emitted' = [r \in Res |-> <<>>]
    /\ nGet' = [r \in Res |-> 0]
    /\ nHash' = [r \in Res |-> 0]
    /\ nDecomp' = [r \in Res |-> 0]
    /\ trace' = [r \in Res |-> <<>>]
    /\ fault' = [r \in Res |-> FALSE]
    /\ served' = [r \in Res |-> NoBody]
    /\ order' = <<>>
    /\ fs0' = fs
    /\ UNCHANGED <<cat, fs, others>>

\* the runs of Spec, and runs that do not find the catalog file
NextCatalog == Next \/ CatalogMissing

SpecCatalog == Init /\ [][NextCatalog]_vars


\* ------------------------------------------------------------------ runs over files left behind
\* Runs that start from a resource directory left by earlier activity, with
\* digests configured for every artifact, a server that answers every
\* request with the right content, and no I/O, delivery or network failure
\* and no kill.

\* one run more than in Spec: the run after the last one that had work to do
MaxRunsConverge == MaxRuns + 1

CatalogsWithDigests ==
    { <<Entry(<<"n1", ".gz">>, TRUE, Sha256Hex(GoodBody), Sha256Hex(GoodFinal)),
        Entry(<<"n2">>, FALSE, Sha256Hex(GoodBody), Sha256Hex(GoodFinal))>>,
      <<Entry(<<"n1">>, FALSE, Sha256Hex(GoodBody), Sha256Hex(GoodFinal)),
        Entry(<<"n2", ".gz">>, TRUE, Sha256Hex(GoodBody), Sha256Hex(GoodFinal))>> }

\* a file fully written with content `data`
FileOf(data) == [ex |-> TRUE, data |-> data, done |-> TRUE]

\* what may be found at path k of an entry: nothing, the right content, and
\* at a staged path also wrong content (a truncated file, other bytes); the
\* final paths of an entry that is not compressed are never looked at
LeftAt(e, k) ==
    IF k = "c" THEN {NoFile, FileOf(GoodBody)}
    ELSE IF k = "cu"
    THEN {NoFile, FileOf(GoodBody), [FileOf(<<"a">>) EXCEPT !.done = FALSE], FileOf(<<"z">>)}
    ELSE IF ~e.compressed THEN {NoFile}
    ELSE IF k = "f" THEN {NoFile, FileOf(GoodFinal)}
    ELSE {NoFile, FileOf(GoodFinal), [FileOf(<<"A">>) EXCEPT !.done = FALSE]}

LeftFiles(e) == {g \in [Kind -> UNION {LeftAt(e, k) : k \in Kind}] :
                    \A k \in Kind : g[k] \in LeftAt(e, k)}

InitLeft ==
    /\ cat \in CatalogsWithDigests
    /\ fs \in {g \in [Res -> UNION {LeftFiles(cat[r]) : r \in Res}] :
                  \A r \in Res : g[r] \in LeftFiles(cat[r])}
    /\ fs0 = fs
    /\ orch = "idle"
    /\ ret = "none"
    /\ runs = 0
    /\ pc = [r \in Res |-> "idle"]
    /\ result = [r \in Res |-> "none"]
    /\ body = [r \in Res |-> <<>>]
    /\ wbuf = [r \in Res |-> <<>>]
    /\ src = [r \in Res |-> <<>>]
    /\ obuf = [r \in Res |-> <<>>]
    /\ downloaded = [r \in Res |-> 0]
    /\ total_size = [r \in Res |-> 0]
    /\ bytes_read = [r \in Res |-> 0]
    /\ emitted = [r \in Res |-> <<>>]
    /\ nGet = [r \in Res |-> 0]
    /\ nHash = [r \in Res |-> 0]
    /\ nDecomp = [r \in Res |-> 0]
    /\ trace = [r \in Res |-> <<>>]
    /\ fault = [r \in Res |-> FALSE]
    /\ served = [r \in Res |-> NoBody]
    /\ order = <<>>
    /\ OthersIdle

\* no failure hit a task and the server sent the right content
NoFailure ==
    \A r \in Res : ~fault[r] /\ served[r] \in {NoBody, GoodBody}

\* download_resources is invoked, up to one time more than in Spec
StartRunAgain ==
    /\ runs < MaxRunsConverge
    /\ Invoked

NextLeft ==
    \/ StartRunAgain /\ NoFailure'
    \/ JoinAll /\ NoFailure'
    \/ \E r \in Res : Task(r) /\ NoFailure'

SpecLeft == InitLeft /\ [][NextLeft]_vars

\* ------------------------------------------------------------------ runs over files found
\* The first resource's directory holds any files an earlier version or an
\* earlier run may have left, a staged file next to a committed one
\* included; the second resource's artifacts are committed.  Every failure
\* and the kill of the process may happen.
CommittedFiles(e) ==
    [k \in Kind |-> IF k = "c" THEN FileOf(GoodBody)
                    ELSE IF k = "f" /\ e.compressed THEN FileOf(GoodFinal)
                    ELSE NoFile]

InitFound ==
    /\ cat \in Catalogs
    /\ fs \in {g \in [Res -> UNION {LeftFiles(cat[r]) : r \in Res}] :
                  /\ g[1] \in LeftFiles(cat[1])
                  /\ g[2] = CommittedFiles(cat[2])}
    /\ fs0 = fs
    /\ orch = "idle"
    /\ ret = "none"
    /\ runs = 0
    /\ pc = [r \in Res |-> "idle"]
    /\ result = [r \in Res |-> "none"]
    /\ body = [r \in Res |-> <<>>]
    /\ wbuf = [r \in Res |-> <<>>]
    /\ src = [r \in Res |-> <<>>]
    /\ obuf = [r \in Res |-> <<>>]
    /\ downloaded = [r \in Res |-> 0]
    /\ total_size = [r \in Res |-> 0]
    /\ bytes_read = [r \in Res |-> 0]
    /\ emitted = [r \in Res |-> <<>>]
    /\ nGet = [r \in Res |-> 0]
    /\ nHash = [r \in Res |-> 0]
    /\ nDecomp = [r \in Res |-> 0]
    /\ trace = [r \in Res |-> <<>>]
    /\ fault = [r \in Res |-> FALSE]
    /\ served = [r \in Res |-> NoBody]
    /\ order = <<>>
    /\ OthersIdle

SpecFound == InitFound /\ [][Next]_vars

\* ------------------------------------------------------------------ file names
\* The first entry is compressed and its file name has no, one or two
\* ".gz" extensions; the second entry is not compressed and its file is
\* committed.  The paths of the two entries are disjoint.
FileNames == {<<"n1">>, <<"n1", ".gz">>, <<"n1", ".gz", ".gz">>}

CatalogsWithNames ==
    { <<Entry(n, TRUE, d[1], d[2]), Entry(<<"n2">>, FALSE, EmptyDigest, EmptyDigest)>> :
        n \in FileNames,
        d \in { <<Sha256Hex(GoodBody), Sha256Hex(GoodFinal)>>, <<EmptyDigest, EmptyDigest>> } }

InitNames ==
    /\ cat \in CatalogsWithNames
    /\ fs = [EmptyFs EXCEPT ![2] = CommittedFiles(cat[2])]
    /\ fs0 = fs
    /\ orch = "idle"
    /\ ret = "none"
    /\ runs = 0
    /\ pc = [r \in Res |-> "idle"]
    /\ result = [r \in Res |-> "none"]
    /\ body = [r \in Res |-> <<>>]
    /\ wbuf = [r \in Res |-> <<>>]
    /\ src = [r \in Res |-> <<>>]
    /\ obuf = [r \in Res |-> <<>>]
    /\ downloaded = [r \in Res |-> 0]
    /\ total_size = [r \in Res |-> 0]
    /\ bytes_read = [r \in Res |-> 0]
    /\ emitted = [r \in Res |-> <<>>]
    /\ nGet = [r \in Res |-> 0]
    /\ nHash = [r \in Res |-> 0]
    /\ nDecomp = [r \in Res |-> 0]
    /\ trace = [r \in Res |-> <<>>]
    /\ fault = [r \in Res |-> FALSE]
    /\ served = [r \in Res |-> NoBody]
    /\ order = <<>>
    /\ OthersIdle

SpecNames == InitNames /\ [][Next]_vars

\* ------------------------------------------------------------------ any catalog
\* Any two entries, entries that share a path included.  The specification
\* covers the start of a run up to the first probe of each task: what tasks
\* that share a path do to the files through their open handles is not
\* part of it.
AnyFileNames == {<<"n1">>, <<"n1", ".gz">>, <<"n2">>, <<"n2", ".gz">>}

AnyEntries ==
    { Entry(n, c, Sha256Hex(GoodBody), IF c THEN Sha256Hex(GoodFinal) ELSE EmptyDigest) :
        n \in AnyFileNames, c \in BOOLEAN }

AnyCatalogs == { <<e1, e2>> : e1 \in AnyEntries, e2 \in AnyEntries }

InitAnyCatalog ==
    /\ cat \in AnyCatalogs
    /\ fs = EmptyFs
    /\ fs0 = fs
    /\ orch = "idle"
    /\ ret = "none"
    /\ runs = 0
    /\ pc = [r \in Res |-> "idle"]
    /\ result = [r \in Res |-> "none"]
    /\ body = [r \in Res |-> <<>>]
    /\ wbuf = [r \in Res |-> <<>>]
    /\ src = [r \in Res |-> <<>>]
    /\ obuf = [r \in Res |-> <<>>]
    /\ downloaded = [r \in Res |-> 0]
    /\ total_size = [r \in Res |-> 0]
    /\ bytes_read = [r \in Res |-> 0]
    /\ emitted = [r \in Res |-> <<>>]
    /\ nGet = [r \in Res |-> 0]
    /\ nHash = [r \in Res |-> 0]
    /\ nDecomp = [r \in Res |-> 0]
    /\ trace = [r \in Res |-> <<>>]
    /\ fault = [r \in Res |-> FALSE]
    /\ served = [r \in Res |-> NoBody]
    /\ order = <<>>
    /\ OthersIdle

NextAnyCatalog == StartRun \/ \E r \in Res : ProbeCompressed(r)

SpecAnyCatalog == InitAnyCatalog /\ [][NextAnyCatalog]_vars

\* ------------------------------------------------------------------ vocabulary of the claims
Committed == {"c", "f"}

\* the staged path of a committed path
Staged(k) == IF k = "c" THEN "cu" ELSE "fu"

\* the digest the catalog expects at a committed path
Expected(r, k) ==
    IF k = "c" THEN cat[r].checksum_compressed ELSE cat[r].checksum_decompressed

\* the artifacts the catalog tracks for resource r
Artifacts(r) == IF cat[r].compressed THEN Committed ELSE {"c"}

InTrace(r, op) == \E i \in DOMAIN trace[r] : trace[r][i] = op

\* the task of r has left phase A (it is in phase B or has returned)
PhaseAOver(r) ==
    pc[r] \in {"B_probe", "B_rehash", "B_rename", "B_open", "B_create",
               "B_copy", "B_drain", "B_hash", "done"}

AllAbsent(f, r) == \A k \in Kind : ~f[r][k].ex

\* every artifact of the catalog is Committed in filesystem f
AllCommitted(f) ==
    \A r \in Res : \A k \in Artifacts(r) : f[r][k].ex /\ ~f[r][Staged(k)].ex

\* ------------------------------------------------------------------ C1
\* C1: in every reachable state, a file present at a committed path (the
\* compressed file, or the final file of a compressed resource) whose expected
\* digest is not empty has content whose SHA-256 is that digest.
C1_Integrity ==
    \A r \in Res : \A k \in Artifacts(r) :
        (fs[r][k].ex /\ Expected(r, k) # EmptyDigest)
            => Sha256Hex(fs[r][k].data) = Expected(r, k)

\* both artifacts of a resource with both digests are committed, in a run
\* that follows an earlier run
C1_Witness ==
    \E r \in Res :
        /\ runs > 1
        /\ cat[r].compressed
        /\ cat[r].checksum_compressed # EmptyDigest
        /\ cat[r].checksum_decompressed # EmptyDigest
        /\ fs[r]["c"].ex /\ fs[r]["f"].ex
        /\ \E q \in Res : fs[q]["cu"].ex

\* ------------------------------------------------------------------ C2
\* C2: a file at a committed path is completely written (its writer wrote and
\* flushed all it had to write before the rename that put it there).
C2_Atomicity ==
    \A r \in Res : \A k \in Artifacts(r) : fs[r][k].ex => fs[r][k].done

\* ------------------------------------------------------------------ C3
\* C3: a task of a compressed resource with both digests that started with
\* none of its four paths present, received the right body and met no failure
\* has returned Ok after exactly: GET, create and write the staged compressed
\* file, hash it, rename it, create and write the staged final file, hash it,
\* rename it; both committed files are there, both staged files are not.
C3_FirstRun ==
    \A r \in Res :
        ( /\ pc[r] = "done"
          /\ cat[r].compressed
          /\ cat[r].checksum_compressed # EmptyDigest
          /\ cat[r].checksum_decompressed # EmptyDigest
          /\ AllAbsent(fs0, r)
          /\ served[r] = GoodBody
          /\ ~fault[r] )
        => /\ result[r] = "ok"
           /\ trace[r] = <<"get", "create_cu", "write_cu", "write_cu", "hash_cu",
                           "rename_c", "create_fu", "write_fu", "write_fu",
                           "hash_fu", "rename_f">>
           /\ fs[r]["c"].ex /\ fs[r]["c"].data = GoodBody
           /\ fs[r]["f"].ex /\ fs[r]["f"].data = GoodFinal
           /\ ~fs[r]["cu"].ex /\ ~fs[r]["fu"].ex

\* a first run of such a resource went through without a failure
C3_Witness ==
    \E r \in Res :
        /\ pc[r] = "done"
        /\ cat[r].compressed
        /\ cat[r].checksum_compressed # EmptyDigest
        /\ cat[r].checksum_decompressed # EmptyDigest
        /\ AllAbsent(fs0, r)
        /\ served[r] = GoodBody
        /\ ~fault[r]
        /\ result[r] = "ok"

\* ------------------------------------------------------------------ C4
\* C4: a run that starts with every artifact Committed sends no request,
\* starts no decompression and no digest computation, changes no file, and
\* returns Ok.
C4_Idempotence ==
    (orch # "idle" /\ AllCommitted(fs0)) =>
        /\ \A r \in Res :
             /\ nGet[r] = 0 /\ nHash[r] = 0 /\ nDecomp[r] = 0
             /\ trace[r] = <<>>
             /\ pc[r] = "done" => result[r] = "ok"
        /\ fs = fs0
        /\ orch = "returned" => ret = "ok"

\* a second run that started with everything Committed has returned Ok
C4_Witness ==
    /\ orch = "returned"
    /\ runs > 1
    /\ AllCommitted(fs0)
    /\ ret = "ok"


\* ------------------------------------------------------------------ C5
\* the run started with a staged compressed file of r that has the expected
\* digest, and with no committed compressed file
StagedGoodAtStart(r) ==
    /\ fs0[r]["cu"].ex
    /\ ~fs0[r]["c"].ex
    /\ Sha256Hex(fs0[r]["cu"].data) = cat[r].checksum_compressed

\* C5: a task that starts with a staged compressed file whose digest is the
\* expected one and with no committed compressed file sends no request, and
\* when its phase A is over (no I/O failure) the committed file is exactly
\* that staged file and the staged path is gone.
C5_Resumability ==
    \A r \in Res :
        StagedGoodAtStart(r) =>
            /\ nGet[r] = 0
            /\ ~InTrace(r, "create_cu")
            /\ (PhaseAOver(r) /\ ~fault[r]) =>
                   /\ fs[r]["c"] = fs0[r]["cu"]
                   /\ ~fs[r]["cu"].ex

\* such a staged file, left by a killed run, was promoted and the task returned Ok
C5_Witness ==
    \E r \in Res :
        /\ StagedGoodAtStart(r)
        /\ pc[r] = "done"
        /\ result[r] = "ok"
        /\ fs[r]["c"] = fs0[r]["cu"]
        /\ fs[r]["c"].data = GoodBody
        /\ ~fs[r]["cu"].ex

\* ------------------------------------------------------------------ C6
\* C6: a task that starts with a staged compressed file whose digest differs
\* from the non-empty expected digest, and meets no failure and a server with
\* the right content, ends with the staged file deleted, one request sent and
\* a committed compressed file with the expected digest.
C6_Recovery ==
    \A r \in Res :
        ( /\ fs0[r]["cu"].ex
          /\ cat[r].checksum_compressed # EmptyDigest
          /\ Sha256Hex(fs0[r]["cu"].data) # cat[r].checksum_compressed
          /\ pc[r] = "done"
          /\ ~fault[r]
          /\ served[r] \in {NoBody, GoodBody} )
        => /\ ~fs[r]["cu"].ex
           /\ nGet[r] = 1
           /\ fs[r]["c"].ex
           /\ Sha256Hex(fs[r]["c"].data) = cat[r].checksum_compressed

\* ------------------------------------------------------------------ C7
\* C7: while a staged file holds only part of what its writer had to write,
\* no step puts anything at its committed path (it is never renamed there),
\* whatever the digest configuration.
C7_NoPartialCommit ==
    [][ \A r \in Res : \A k \in Artifacts(r) :
          (fs[r][Staged(k)].ex /\ ~fs[r][Staged(k)].done)
              => fs'[r][k] = fs[r][k] ]_vars

\* ------------------------------------------------------------------ C8
\* C8: with an empty expected digest no digest computation over the staged
\* file is ever started, and the staged file (found at the start, downloaded
\* or decompressed in this run) is what the rename puts at the committed path,
\* in phase A and in phase B.
C8_SkipVerification ==
    \A r \in Res :
        /\ cat[r].checksum_compressed = EmptyDigest =>
             /\ ~InTrace(r, "hash_cu")
             /\ (PhaseAOver(r) /\ ~fault[r] /\ fs0[r]["cu"].ex)
                    => (fs[r]["c"] = fs0[r]["cu"] /\ ~fs[r]["cu"].ex)
             /\ (PhaseAOver(r) /\ ~fault[r] /\ served[r] # NoBody)
                    => (fs[r]["c"].ex /\ fs[r]["c"].data = served[r] /\ ~fs[r]["cu"].ex)
        /\ (cat[r].compressed /\ cat[r].checksum_decompressed = EmptyDigest) =>
             /\ ~InTrace(r, "hash_fu")
             /\ (pc[r] = "done" /\ result[r] = "ok" /\ ~fault[r] /\ fs0[r]["fu"].ex)
                    => (fs[r]["f"] = fs0[r]["fu"] /\ ~fs[r]["fu"].ex)
             /\ (pc[r] = "done" /\ result[r] = "ok" /\ nDecomp[r] = 1)
                    => /\ fs[r]["f"].ex
                       /\ fs[r]["f"].data = Gunzip(fs[r]["c"].data)
                       /\ ~fs[r]["fu"].ex

\* a staged compressed file found at the start was renamed and the final
\* file was decompressed and renamed, both with empty digests
C8_Witness ==
    \E r \in Res :
        /\ cat[r].compressed
        /\ cat[r].checksum_compressed = EmptyDigest
        /\ cat[r].checksum_decompressed = EmptyDigest
        /\ fs0[r]["cu"].ex
        /\ pc[r] = "done"
        /\ result[r] = "ok"
        /\ nDecomp[r] = 1
        /\ InTrace(r, "rename_c") /\ InTrace(r, "rename_f")

\* ------------------------------------------------------------------ C9
\* C9: decompression goes on only with the compressed file at its committed
\* path; a task that finds the final artifact Absent and no committed
\* compressed file returns the missing-compressed-file error, and then neither
\* the staged final file nor the final file was created or written.
C9_Precondition ==
    \A r \in Res :
        /\ (pc[r] = "B_create" \/ InTrace(r, "create_fu")) => fs[r]["c"].ex
        /\ result[r] = "missing" =>
             /\ ~fs[r]["fu"].ex /\ ~fs[r]["f"].ex
             /\ fs[r]["fu"] = fs0[r]["fu"] /\ fs[r]["f"] = fs0[r]["f"]
             /\ nDecomp[r] = 0
        /\ ( /\ pc[r] = "done"
             /\ cat[r].compressed
             /\ ~fs[r]["c"].ex
             /\ ~fs0[r]["fu"].ex /\ ~fs0[r]["f"].ex
             /\ ~fault[r]
             /\ result[r] # "mismatch_c" )
           => result[r] = "missing"

\* a task returned the missing-compressed-file error
C9_Witness ==
    \E r \in Res :
        /\ pc[r] = "done"
        /\ result[r] = "missing"
        /\ ~fs[r]["c"].ex

\* ------------------------------------------------------------------ C10
\* C10: a task sends at most one request in a run; when the digest of the
\* downloaded staged file differs from the non-empty expected digest the task
\* fails with the mismatch error, the staged file is deleted and nothing was
\* renamed to the committed path.
C10_Mismatch ==
    \A r \in Res :
        /\ nGet[r] <= 1
        /\ result[r] = "mismatch_c" =>
             /\ nGet[r] = 1
             /\ ~InTrace(r, "rename_c")
             /\ ~fs[r]["c"].ex
             /\ ~fault[r] => ~fs[r]["cu"].ex
        /\ ( /\ pc[r] = "done"
             /\ cat[r].checksum_compressed # EmptyDigest
             /\ served[r] # NoBody
             /\ Sha256Hex(served[r]) # cat[r].checksum_compressed
             /\ ~fault[r] )
           => result[r] = "mismatch_c"

\* a task failed on a digest mismatch after its download
C10_Witness ==
    \E r \in Res :
        /\ pc[r] = "done"
        /\ result[r] = "mismatch_c"
        /\ ~fault[r]
        /\ ~fs[r]["cu"].ex

\* ------------------------------------------------------------------ C11
\* C11: a task that got a response with a non-success status has failed with
\* the status error after one request, without creating, writing, renaming
\* or removing anything: all four paths of its resource are as they were when
\* the run started, and the staged and the committed compressed file are absent.
C11_BadStatus ==
    \A r \in Res :
        result[r] = "status" =>
            /\ pc[r] = "done"
            /\ nGet[r] = 1
            /\ trace[r] = <<"get">>
            /\ fs[r] = fs0[r]
            /\ ~fs[r]["cu"].ex /\ ~fs[r]["c"].ex

\* a task failed on a non-success status while its sibling wrote files
C11_Witness ==
    \E r \in Res :
        /\ pc[r] = "done"
        /\ result[r] = "status"
        /\ \E q \in Res \ {r} : fs[q] # fs0[q]

\* ------------------------------------------------------------------ C12
\* the sibling q of r is left alone by a step: its position, its result, its
\* files and what it holds in memory are unchanged
Untouched(q) ==
    /\ pc'[q] = pc[q] /\ result'[q] = result[q] /\ fs'[q] = fs[q]
    /\ body'[q] = body[q] /\ wbuf'[q] = wbuf[q]
    /\ src'[q] = src[q] /\ obuf'[q] = obuf[q]

\* C12: download_resources returns only when every task has returned a
\* result; the step in which a task fails leaves the run under way and its
\* sibling untouched; and while the run is under way a task that has not
\* returned can always take its next step when it is polled, whatever its
\* sibling returned.
C12_Isolation ==
    /\ [](\A q \in Res :
            (orch = "running" /\ pc[q] # "done" /\ \A s \in Res \ {q} : pc[s] \in Parked)
                => ENABLED Task(q))
    /\ [][ /\ (orch = "running" /\ orch' = "returned")
               => \A r \in Res : pc[r] = "done" /\ result[r] # "none"
           /\ \A r \in Res :
                (pc[r] # "done" /\ pc'[r] = "done" /\ result'[r] # "ok")
                    => /\ orch' = "running"
                       /\ \A q \in Res \ {r} : Untouched(q) ]_vars

\* a task is decompressing while its sibling has already failed
C12_Witness ==
    \E r \in Res : \E q \in Res \ {r} :
        /\ orch = "running"
        /\ pc[r] = "done"
        /\ result[r] = "status"
        /\ pc[q] = "B_copy"

\* ------------------------------------------------------------------ C13
\* C13: when download_resources has returned, it returned Ok exactly when
\* every task returned Ok, and otherwise the error of the first failed task of
\* the catalog; returning changes no file, so what the tasks committed stays.
C13_OverallResult ==
    /\ [](orch = "returned" =>
            /\ ret = "ok" <=> \A r \in Res : result[r] = "ok"
            /\ ret # "ok" => \E r \in Res :
                   /\ ret = result[r]
                   /\ \A q \in Res : q < r => result[q] = "ok")
    /\ [][orch' = "returned" => fs' = fs]_vars

\* a run returned an error although a task returned Ok after committing, in
\* this run, its compressed and its final file, which are still there
C13_Witness ==
    \E r \in Res : \E q \in Res \ {r} :
        /\ orch = "returned"
        /\ ret # "ok"
        /\ result[r] = ret
        /\ result[q] = "ok"
        /\ cat[q].compressed
        /\ InTrace(q, "rename_c") /\ InTrace(q, "rename_f")
        /\ fs[q]["c"].ex /\ fs[q]["f"].ex

\* ------------------------------------------------------------------ C14
\* the artifact at committed path k of r was Committed when the run started
CommittedAtStart(r, k) == fs0[r][k].ex /\ ~fs0[r][Staged(k)].ex

\* C14: in every run (the first, and one that follows a failed or a killed
\* run), a task whose compressed artifact is Committed at the start sends no
\* request, hashes, creates, renames and removes no compressed file and
\* leaves both compressed paths as they were; a task whose final artifact is
\* Committed at the start starts no decompression, hashes no final file and
\* leaves both final paths as they were.  (A phase finds its two paths as
\* they were at the start of the run: only the phase itself writes them.)
C14_CommittedTerminal ==
    \A r \in Res :
        /\ CommittedAtStart(r, "c") =>
             /\ nGet[r] = 0
             /\ \A op \in {"hash_cu", "create_cu", "write_cu", "rename_c", "remove_cu"} :
                    ~InTrace(r, op)
             /\ fs[r]["c"] = fs0[r]["c"]
             /\ fs[r]["cu"] = fs0[r]["cu"]
        /\ (cat[r].compressed /\ CommittedAtStart(r, "f")) =>
             /\ nDecomp[r] = 0
             /\ \A op \in {"hash_fu", "create_fu", "write_fu", "rename_f", "remove_fu"} :
                    ~InTrace(r, op)
             /\ fs[r]["f"] = fs0[r]["f"]
             /\ fs[r]["fu"] = fs0[r]["fu"]
        /\ \A k \in Artifacts(r) :
             ( /\ pc[r] = (IF k = "c" THEN "A_probe" ELSE "B_probe")
               /\ fs[r][k].ex /\ ~fs[r][Staged(k)].ex )
                 => CommittedAtStart(r, k)

\* in a second run a task whose compressed artifact was Committed, and whose
\* final artifact was not, went on from there and returned Ok
C14_Witness ==
    \E r \in Res :
        /\ runs > 1
        /\ cat[r].compressed
        /\ CommittedAtStart(r, "c")
        /\ ~fs0[r]["f"].ex
        /\ pc[r] = "done"
        /\ result[r] = "ok"
        /\ fs[r]["f"].ex

\* ------------------------------------------------------------------ C15
\* the hashing of the downloaded staged file starts with the whole body
\* received, handed to the writer and the writer dropped
HashAfterDownload(r) ==
    pc[r] = "A_hash" =>
        /\ served[r] # NoBody
        /\ body[r] = <<>> /\ wbuf[r] = <<>>
        /\ trace[r] = <<"get", "create_cu">> \o [i \in 1..Len(served[r]) |-> "write_cu"]

\* the rename to the committed compressed path comes right after a hashing
\* that matched, or the digest is empty
RenameAfterMatch(r) ==
    \A i \in DOMAIN trace[r] :
        trace[r][i] = "rename_c" =>
            \/ cat[r].checksum_compressed = EmptyDigest
            \/ /\ i > 1
               /\ trace[r][i - 1] = "hash_cu"
               /\ fs[r]["c"].ex => Sha256Hex(fs[r]["c"].data) = cat[r].checksum_compressed

\* phase B of a compressed resource (its probe, and all that follows) goes
\* on with the compressed file at its committed path and no staged one
PhaseBAfterCommit(r) ==
    (cat[r].compressed /\ PhaseAOver(r) /\ pc[r] # "done")
        => fs[r]["c"].ex /\ ~fs[r]["cu"].ex

\* C15: within a task, the staged compressed file is hashed only after the
\* whole body was written, it is renamed only after that hashing matched (or
\* with an empty digest), and phase B probes and decompresses only after
\* phase A ended with the compressed file at its committed path.
C15_Sequential ==
    \A r \in Res :
        HashAfterDownload(r) /\ RenameAfterMatch(r) /\ PhaseBAfterCommit(r)

\* ------------------------------------------------------------------ C16
\* C16: when the digest of the staged final file decompressed in this run is
\* about to be computed, and when that file is about to be renamed, the
\* BufWriter holds nothing and the file holds the whole output of the
\* decoder; the final file such a rename puts in place is that whole output.
C16_DecompressedFlushed ==
    \A r \in Res :
        /\ (pc[r] \in {"B_hash", "B_rename"} /\ nDecomp[r] = 1) =>
             /\ obuf[r] = <<>>
             /\ src[r] = <<>>
             /\ fs[r]["fu"].ex
             /\ fs[r]["fu"].done
             /\ fs[r]["fu"].data = Gunzip(fs[r]["c"].data)
        /\ (nDecomp[r] = 1 /\ InTrace(r, "rename_f") /\ fs[r]["f"].ex) =>
             /\ fs[r]["f"].done
             /\ fs[r]["f"].data = Gunzip(fs[r]["c"].data)

\* the decompression of a two-block stream is over and its digest is about
\* to be computed
C16_Witness ==
    \E r \in Res :
        /\ pc[r] = "B_hash"
        /\ nDecomp[r] = 1
        /\ fs[r]["fu"].data = GoodFinal
        /\ trace[r][Len(trace[r])] = "write_fu"

\* ------------------------------------------------------------------ C17
\* C17: a run that does not find taxdb_config.toml has returned the
\* configuration error with no task created: no request, no digest
\* computation, no decompression, no filesystem operation, and every staged
\* and committed file is as it was when download_resources was invoked.
C17_MissingCatalog ==
    ret = "config" =>
        /\ orch = "returned"
        /\ fs = fs0
        /\ \A r \in Res :
             /\ pc[r] = "idle" /\ result[r] = "none"
             /\ nGet[r] = 0 /\ nHash[r] = 0 /\ nDecomp[r] = 0
             /\ trace[r] = <<>>

\* the catalog file is missing in a second run, with a staged and a committed
\* file of the first run in the resource directory
C17_Witness ==
    /\ ret = "config"
    /\ runs = 2
    /\ \E r \in Res : fs[r]["cu"].ex
    /\ \E r \in Res : fs[r]["c"].ex

\* ------------------------------------------------------------------ C18
\* C18: the delivery of a progress event that fails changes nothing: no task
\* returns an error because an event could not be delivered (it goes on as
\* it does when the delivery succeeds).
C18_BestEffort ==
    \A r \in Res : result[r] # "emit"

\* ------------------------------------------------------------------ C19
\* C19: when download_resources has returned Ok, every artifact of the
\* catalog is Committed: the compressed file of every resource and the final
\* file of every compressed resource are at their committed paths and no
\* staged file is left.  (Stated for the runs in which no I/O, network or
\* delivery failure occurred, which is where it matters most.)
C19_SuccessCommitted ==
    (orch = "returned" /\ ret = "ok" /\ \A r \in Res : ~fault[r]) => AllCommitted(fs)

\* ------------------------------------------------------------------ C20
\* every artifact of the catalog is Committed in f with the right content
AllCommittedRight(f) ==
    /\ AllCommitted(f)
    /\ \A r \in Res : \A k \in Artifacts(r) :
          Sha256Hex(f[r][k].data) = Expected(r, k)

\* C20: with digests configured, the right content served and no failure,
\* from any resource directory whose staged files are right or wrong and
\* whose committed files are right, the second run to return (and every
\* later one) returns Ok with every artifact Committed and right, and every
\* run after the second does no work: no request, no digest, no
\* decompression, no file changed.
C20_Convergence ==
    /\ (runs >= 2 /\ orch = "returned") =>
          /\ ret = "ok"
          /\ AllCommittedRight(fs)
    /\ (runs >= 3) =>
          /\ AllCommittedRight(fs0)
          /\ fs = fs0
          /\ \A r \in Res :
                /\ nGet[r] = 0 /\ nHash[r] = 0 /\ nDecomp[r] = 0
                /\ trace[r] = <<>>

\* a resource needed the second run: the first run only removed its wrong
\* staged files, the second downloaded, decompressed and committed, and
\* returned Ok
C20_Witness ==
    \E r \in Res :
        /\ runs = 2
        /\ orch = "returned"
        /\ ret = "ok"
        /\ cat[r].compressed
        /\ AllAbsent(fs0, r)
        /\ nGet[r] = 1 /\ nDecomp[r] = 1
        /\ AllCommittedRight(fs)

\* ------------------------------------------------------------------ C21
\* the failed task with the lowest index in the catalog
FirstFailedInCatalog ==
    CHOOSE r \in Res : /\ result[r] # "ok"
                       /\ \A q \in Res : q < r => result[q] = "ok"

\* C21: when several tasks failed in a run, download_resources has returned
\* the error of the failed task with the lowest catalog index, whichever of
\* them failed first in time.
C21_CatalogOrder ==
    ( /\ orch = "returned"
      /\ ret # "config"
      /\ Cardinality({r \in Res : result[r] # "ok"}) >= 2 )
    => /\ ret = result[FirstFailedInCatalog]
       /\ \A r \in Res : result[r] # "none"

\* both tasks failed, with different errors, the second of the catalog first
\* in time, and the error returned is the one of the first of the catalog
C21_Witness ==
    /\ orch = "returned"
    /\ order = <<2, 1>>
    /\ result[1] = "mismatch_c"
    /\ result[2] = "status"
    /\ ret = "mismatch_c"

\* ------------------------------------------------------------------ C22
\* The task of one entry run alone, from its first poll to its return with
\* no suspension in between and no failure of a call: what it returns and
\* what it leaves at its four paths, as a function of the entry e, of the
\* files F at its four paths and of the body b the server sends.

RECURSIVE Decoded(_)
\* what GzDecoder produces from content d before the end of the stream or
\* its first error
Decoded(d) ==
    IF d = <<>> THEN <<>>
    ELSE IF Head(d) = "x" THEN <<>>
    ELSE IF Head(d) = "z" THEN <<"Z">>
    ELSE <<Inflate(Head(d))>> \o Decoded(Tail(d))

\* phase A alone
AloneCompressed(e, F, b) ==
    LET accepts(data) == \/ e.checksum_compressed = EmptyDigest
                         \/ Sha256Hex(data) = e.checksum_compressed
    IN  IF F["cu"].ex
        THEN IF accepts(F["cu"].data)
             THEN [files |-> [F EXCEPT !["c"] = F["cu"], !["cu"] = NoFile], result |-> "ok"]
             ELSE [files |-> [F EXCEPT !["cu"] = NoFile], result |-> "ok"]
        ELSE IF F["c"].ex
        THEN [files |-> F, result |-> "ok"]
        ELSE IF accepts(b)
        THEN [files |-> [F EXCEPT !["c"] = [ex |-> TRUE, data |-> b, done |-> TRUE]],
              result |-> "ok"]
        ELSE [files |-> F, result |-> "mismatch_c"]

\* phase B alone
AloneFinal(e, F) ==
    LET accepts(data) == \/ e.checksum_decompressed = EmptyDigest
                         \/ Sha256Hex(data) = e.checksum_decompressed
        out == Decoded(F["c"].data)
        whole == out # <<>> /\ out[Len(out)] = "Z"
    IN  IF ~e.compressed
        THEN [files |-> F, result |-> "ok"]
        ELSE IF F["fu"].ex
        THEN IF accepts(F["fu"].data)
             THEN [files |-> [F EXCEPT !["f"] = F["fu"], !["fu"] = NoFile], result |-> "ok"]
             ELSE [files |-> [F EXCEPT !["fu"] = NoFile], result |-> "ok"]
        ELSE IF F["f"].ex
        THEN [files |-> F, result |-> "ok"]
        ELSE IF ~F["c"].ex
        THEN [files |-> F, result |-> "missing"]
        ELSE IF ~whole
        THEN [files |-> [F EXCEPT !["fu"] = [ex |-> TRUE, data |-> out, done |-> FALSE]],
              result |-> "decomp"]
        ELSE IF accepts(out)
        THEN [files |-> [F EXCEPT !["f"] = [ex |-> TRUE, data |-> out, done |-> TRUE]],
              result |-> "ok"]
        ELSE [files |-> F, result |-> "mismatch_f"]

RunAlone(e, F, b) ==
    LET a == AloneCompressed(e, F, b)
    IN  IF a.result # "ok" THEN a ELSE AloneFinal(e, a.files)

\* a step leaves everything of resource q as it was
Unaffected(q) ==
    /\ Untouched(q)
    /\ nGet'[q] = nGet[q] /\ nHash'[q] = nHash[q] /\ nDecomp'[q] = nDecomp[q]
    /\ trace'[q] = trace[q] /\ fault'[q] = fault[q] /\ served'[q] = served[q]

\* C22: in every interleaving of the tasks, each step of a run is the step
\* of one task and leaves everything of the other resource as it was; and a
\* task that has returned, when no call of its own failed, returned what it
\* returns when run alone from the files its resource had at the start of
\* the run, and left its four paths as it leaves them when run alone.
C22_NonInterference ==
    /\ [](\A r \in Res :
            (pc[r] = "done" /\ ~fault[r]) =>
                LET alone == RunAlone(cat[r], fs0[r], served[r])
                IN  result[r] = alone.result /\ fs[r] = alone.files)
    /\ [][ (orch = "running" /\ orch' = "running")
              => \E r \in Res : \A q \in Res \ {r} : Unaffected(q) ]_vars

\* both tasks downloaded in the same run, the second of the catalog
\* returned first, both without a failure, with different results
C22_Witness ==
    /\ pc[1] = "done" /\ pc[2] = "done"
    /\ ~fault[1] /\ ~fault[2]
    /\ nGet[1] = 1 /\ nGet[2] = 1
    /\ order = <<2, 1>>
    /\ result[1] = "decomp"
    /\ result[2] = "ok"
    /\ fs[1] = RunAlone(cat[1], fs0[1], served[1]).files

\* ------------------------------------------------------------------ C23
\* the staged and the committed file of artifact k of r both exist in f
Coexist(f, r, k) == f[r][k].ex /\ f[r][Staged(k)].ex

\* C23: no step of a run, of a task that fails or of a kill of the process
\* makes the staged and the committed file of an artifact exist together
\* where they did not before; so from files among which no artifact has
\* both, no state of any sequence of runs has both for an artifact.
C23_NeverBoth ==
    /\ []( (\A r \in Res : \A k \in Committed : ~Coexist(fs0, r, k))
            => \A r \in Res : \A k \in Committed : ~Coexist(fs, r, k) )
    /\ [][ \A r \in Res : \A k \in Committed :
               Coexist(fs', r, k) => Coexist(fs, r, k) ]_vars

\* in the second run, after a kill, the decompression of the first
\* resource writes its staged final file: no committed final file exists,
\* the compressed file is committed and no staged compressed file exists
C23_Witness ==
    /\ runs = 2
    /\ \A r \in Res : \A k \in Committed : ~Coexist(fs0, r, k)
    /\ ~fs0[1]["fu"].ex
    /\ pc[1] = "B_copy"
    /\ fs[1]["fu"].ex /\ fs[1]["fu"].data # <<>>
    /\ ~fs[1]["f"].ex
    /\ fs[1]["c"].ex /\ ~fs[1]["cu"].ex
    /\ nGet[1] = 1

\* ------------------------------------------------------------------ C24
\* artifact k of r had both files when the run started (no phase touches
\* the paths of k before the probe of k's own phase)
BothAtStart(r, k) == k \in Artifacts(r) /\ Coexist(fs0, r, k)

\* the staged file found at the start passes the re-verification (with no
\* digest configured the comparison is skipped)
StagedAccepted(r, k) ==
    \/ Expected(r, k) = EmptyDigest
    \/ Sha256Hex(fs0[r][Staged(k)].data) = Expected(r, k)

\* the phase of artifact k is over for the task of r without an error
PhaseOver(r, k) ==
    IF k = "c" THEN PhaseAOver(r) ELSE pc[r] = "done" /\ result[r] = "ok"

\* C24: when both the staged and the committed file of an artifact exist at
\* the start of its phase, the probe leads to the re-verification of the
\* staged file (to its rename when no digest is configured), never to the
\* skip or to a new download or decompression; when no call failed, at the
\* end of the phase the staged path is free and the committed path holds
\* the file that was staged if it passed, the file that was committed
\* before if it did not; and a decompression in the rest of the task reads
\* that committed compressed file.
C24_StagedFirst ==
    /\ [](\A r \in Res : \A k \in Committed :
            (BothAtStart(r, k) /\ PhaseOver(r, k) /\ ~fault[r]) =>
                /\ ~fs[r][Staged(k)].ex
                /\ fs[r][k] = IF StagedAccepted(r, k) THEN fs0[r][Staged(k)]
                                                    ELSE fs0[r][k]
                /\ (Expected(r, k) # EmptyDigest) =>
                       InTrace(r, IF k = "c" THEN "hash_cu" ELSE "hash_fu")
                /\ k = "c" => nGet[r] = 0
                /\ k = "f" => nDecomp[r] = 0
                /\ (k = "c" /\ pc[r] = "done" /\ result[r] = "ok" /\ nDecomp[r] = 1)
                       => fs[r]["f"].data = Decoded(fs[r]["c"].data))
    /\ [][ \A r \in Res :
             /\ (pc[r] = "A_probe" /\ pc'[r] # "A_probe" /\ Coexist(fs, r, "c")
                    /\ orch' = "running")
                   => pc'[r] = (IF Expected(r, "c") # EmptyDigest THEN "A_rehash"
                                                                  ELSE "A_rename")
             /\ (pc[r] = "B_probe" /\ pc'[r] # "B_probe" /\ cat[r].compressed
                    /\ Coexist(fs, r, "f") /\ orch' = "running")
                   => pc'[r] = (IF Expected(r, "f") # EmptyDigest THEN "B_rehash"
                                                                  ELSE "B_rename") ]_vars

\* the first resource started with a staged compressed file that does not
\* match next to a committed one: the staged file is gone, the committed
\* one is as it was and the final file was decompressed from it
C24_Witness ==
    /\ BothAtStart(1, "c")
    /\ ~StagedAccepted(1, "c")
    /\ pc[1] = "done" /\ result[1] = "ok" /\ ~fault[1]
    /\ nDecomp[1] = 1
    /\ ~fs[1]["cu"].ex
    /\ fs[1]["c"] = fs0[1]["c"]
    /\ fs[1]["f"].data = Gunzip(fs0[1]["c"].data)

\* ------------------------------------------------------------------ C25
\* the step is one in which a call of the task of r fails or the task
\* returns an error
FailingStep(r) ==
    \/ fault'[r] /\ ~fault[r]
    \/ result[r] = "none" /\ result'[r] \notin {"none", "ok"}

\* C25: in every step of every run a committed file that exists goes on
\* existing; a committed path changes only in a step that moves the file of
\* its own staged path onto it, the staged path being free afterwards; and a
\* step in which a call fails or the task returns an error leaves the
\* committed paths as they were.
C25_CommittedKept ==
    [][ \A r \in Res : \A k \in Committed :
          /\ fs[r][k].ex => fs'[r][k].ex
          /\ fs'[r][k] # fs[r][k] =>
                /\ fs[r][Staged(k)].ex
                /\ fs'[r][k] = fs[r][Staged(k)]
                /\ ~fs'[r][Staged(k)].ex
          /\ FailingStep(r) => fs'[r][k] = fs[r][k] ]_vars

\* the rename of a staged compressed file that matches onto the committed
\* file failed: the task returned the error, both files are as they were
C25_Witness ==
    /\ BothAtStart(1, "c")
    /\ pc[1] = "done" /\ result[1] = "rename"
    /\ InTrace(1, "hash_cu")
    /\ fs[1]["c"] = fs0[1]["c"]
    /\ fs[1]["cu"] = fs0[1]["cu"]

\* ------------------------------------------------------------------ C26
\* the content is output of the decoder
Decompressed(data) == \A i \in DOMAIN data : data[i] \in {"A", "Z"}

\* C26: for an entry with compressed = true whose task returned Ok, the final
\* path is not the path of the committed compressed file, and a file at the
\* final path holds output of the decoder, not the compressed content.
C26_PathsApart ==
    \A r \in Res :
        (cat[r].compressed /\ pc[r] = "done" /\ result[r] = "ok") =>
            /\ PathOf(cat[r], "f") # PathOf(cat[r], "c")
            /\ File(fs, r, "f").ex => Decompressed(File(fs, r, "f").data)

\* ------------------------------------------------------------------ C27
\* the step is a digest computation over the staged file of artifact k that
\* ends with a read error: the file has the expected digest and yet the
\* task does not go on to the rename
HashReadFailed(r, k) ==
    /\ pc[r] \in (IF k = "c" THEN {"A_rehash", "A_hash"} ELSE {"B_rehash", "B_hash"})
    /\ Sha256Hex(File(fs, r, Staged(k)).data) = Expected(r, k)
    /\ orch' = "running"
    /\ pc'[r] \notin {pc[r], IF k = "c" THEN "A_rename" ELSE "B_rename"}

\* C27: a digest computation that ends with a read error, of a staged file
\* found at the start as well as of one just written, in phase A and in
\* phase B, ends the task with an error.
C27_HashErrorPropagated ==
    [][ \A r \in Res : \A k \in Committed :
          HashReadFailed(r, k) => pc'[r] = "done" /\ result'[r] \notin {"none", "ok"} ]_vars

\* ------------------------------------------------------------------ C28
\* two entries of the catalog share a path: the same final path, or the
\* final path of one is the committed compressed path of the other
SharePath(q, r) ==
    \/ PathOf(cat[q], "f") = PathOf(cat[r], "f")
    \/ PathOf(cat[q], "f") = PathOf(cat[r], "c")

SharedPathInCatalog == \E q \in Res : \E r \in Res \ {q} : SharePath(q, r)

\* C28: with a catalog in which two entries share a path no run is under
\* way and no task exists, and a run that was invoked returned the
\* configuration error.
C28_CatalogValidated ==
    SharedPathInCatalog =>
        /\ orch # "running"
        /\ \A r \in Res : pc[r] = "idle"
        /\ runs > 0 => (orch = "returned" /\ ret = "config")

\* ------------------------------------------------------------------ C29
\* the payloads of the events of one kind the task of r emitted, in order
EventsOf(r, kind) ==
    LET Is(e) == e.event = kind IN SelectSeq(emitted[r], Is)

\* the chunks of the body the download loop has received so far
Received(r) == SubSeq(served[r], 1, Len(served[r]) - Len(body[r]))

\* C29: while and after a task downloads, when no call of it failed: it has
\* emitted one download-progress event per chunk received; the `downloaded`
\* of the i-th event is the number of bytes of the first i chunks, so the
\* values do not decrease; during the loop the last value is the number of
\* bytes handed to the writer of the staged file (those in the file and
\* those its BufWriter holds), after the loop it is the length of the staged
\* file; and every `total_size` is the Content-Length of the response, 0
\* when the response has none.
C29_DownloadProgress ==
    \A r \in Res :
        (served[r] # NoBody /\ ~fault[r]) =>
            LET E == EventsOf(r, "download-progress")
                last == E[Len(E)].downloaded
            IN  /\ Len(E) = Len(Received(r))
                /\ \A i \in DOMAIN E :
                      /\ E[i].downloaded = Bytes(SubSeq(served[r], 1, i))
                      /\ E[i].total_size =
                            IF ContentLength(served[r]) = NoLength THEN 0
                            ELSE ContentLength(served[r])[1]
                /\ \A i \in DOMAIN E : \A j \in DOMAIN E :
                      i <= j => E[i].downloaded <= E[j].downloaded
                /\ (E # <<>> /\ pc[r] \in {"A_next", "A_write", "A_drop"}) =>
                      last = Bytes(fs[r]["cu"].data) + Bytes(wbuf[r])
                /\ pc[r] \in {"A_hash", "A_rename"} =>
                      /\ Len(E) = Len(served[r])
                      /\ last = Bytes(fs[r]["cu"].data)

\* the first task has downloaded the two chunks of a body sent with its
\* Content-Length, the second has received and written the one chunk of a
\* body sent without
C29_Witness ==
    /\ pc[1] \in {"A_hash", "A_rename"} /\ ~fault[1]
    /\ served[1] = GoodBody
    /\ EventsOf(1, "download-progress") =
          << [event |-> "download-progress", downloaded |-> 2, total_size |-> 3],
             [event |-> "download-progress", downloaded |-> 3, total_size |-> 3] >>
    /\ pc[2] = "A_next" /\ body[2] = <<>> /\ ~fault[2]
    /\ EventsOf(2, "download-progress") =
          << [event |-> "download-progress", downloaded |-> 1, total_size |-> 0] >>

\* ------------------------------------------------------------------ C30
\* the chunks of the committed compressed file the decoder has read through
\* the CountingReader so far
ReadSoFar(r) ==
    SubSeq(File(fs, r, "c").data, 1, Len(File(fs, r, "c").data) - Len(src[r]))

\* C30: in a run in which the task of r decompresses: one
\* decompression-progress event was emitted per read of n > 0 bytes and
\* none for a read of 0 bytes; the `compressed_read` of the i-th event is the
\* number of bytes of the first i chunks of the committed compressed file,
\* the counter of the reader is the number of bytes read so far, and no
\* `compressed_read` exceeds `total_compressed_size`, which is the length of
\* the compressed file; the decoder was given the bytes of the file
\* unchanged (what it has produced is the decoding of what was read); and
\* a step in which the read fails ends the task with the error and emits
\* nothing.
C30_DecompressionProgress ==
    /\ [](\A r \in Res :
            nDecomp[r] = 1 =>
                LET E == EventsOf(r, "decompression-progress")
                IN  /\ Len(E) = Len(ReadSoFar(r))
                    /\ bytes_read[r] = Bytes(ReadSoFar(r))
                    /\ \A i \in DOMAIN E :
                          /\ E[i].compressed_read = Bytes(SubSeq(File(fs, r, "c").data, 1, i))
                          /\ E[i].total_compressed_size = Bytes(File(fs, r, "c").data)
                          /\ E[i].compressed_read <= E[i].total_compressed_size
                    /\ (pc[r] \in {"B_copy", "B_drain"} /\ ~fault[r]) =>
                          File(fs, r, "fu").data \o obuf[r] = Decoded(ReadSoFar(r)))
    /\ [][ \A r \in Res :
             (pc[r] = "B_copy" /\ obuf[r] = <<>> /\ orch' = "running") =>
                 /\ (fault'[r] /\ ~fault[r]) =>
                       /\ pc'[r] = "done" /\ result'[r] = "decomp"
                       /\ emitted'[r] = emitted[r] /\ bytes_read'[r] = bytes_read[r]
                 /\ src[r] = <<>> => emitted'[r] = emitted[r] ]_vars

\* the decoder has read the two chunks of the compressed file, the second
\* of which is no gzip: two events, the second with the length of the file
C30_Witness ==
    /\ nDecomp[1] = 1
    /\ File(fs, 1, "c").data = <<"a", "x">>
    /\ pc[1] = "done" /\ result[1] = "decomp" /\ ~fault[1]
    /\ src[1] = <<>>
    /\ EventsOf(1, "decompression-progress") =
          << [event |-> "decompression-progress", compressed_read |-> 2,
              total_compressed_size |-> 3],
             [event |-> "decompression-progress", compressed_read |-> 3,
              total_compressed_size |-> 3] >>

\* ------------------------------------------------------------------ retry_async
\* supabase_connector.rs.  retry_async is called by upload_data with 3
\* retries, a delay of 1000 ms and the factor 2; the arguments below include
\* these.  `delay` is a u64: with the arguments drawn here no product comes
\* near 2^64.
MaxRetries == 3

\* what a call of func may yield
FuncResults == {<<"Ok", "v">>, <<"Err", "e1">>, <<"Err", "e2">>}

\* faulty variant: the delay grows by addition
BackoffLinear(d, f) == d + f

\* `delay *= factor`
Backoff(d, f) == d * f

InitRetry ==
    /\ DownloaderIdle
    /\ LegacyIdle
    /\ DatabaseIdle
    /\ ReportIdle
    /\ TaxonomyIdle
    /\ given \in [retries : 0..MaxRetries, delay : {0, 1, 1000}, factor : {1, 2, 3}]
    /\ retries = given.retries
    /\ delay = given.delay
    /\ factor = given.factor
    /\ stage = "call"
    /\ returned = <<>>
    /\ called = <<>>
    /\ slept = <<>>

\* `match func().await`: Ok returns the value, Err returns the error when no
\* retry is left and goes to sleep otherwise
CallFunc ==
    /\ stage = "call"
    /\ \E res \in FuncResults :
          /\ called' = Append(called, res)
          /\ IF res[1] = "Ok" \/ retries = 0
             THEN /\ returned' = res
                  /\ stage' = "returned"
             ELSE /\ returned' = returned
                  /\ stage' = "sleep"
    /\ UNCHANGED <<retries, delay, factor, given, slept, downloader, legacy, database, report, taxonomy>>

\* `tokio::time::sleep(..).await; retries -= 1; delay *= factor;`
Sleep ==
    /\ stage = "sleep"
    /\ slept' = Append(slept, delay)
    /\ retries' = retries - 1
    /\ delay' = Backoff(delay, factor)
    /\ stage' = "call"
    /\ UNCHANGED <<factor, returned, given, called, downloader, legacy, database, report, taxonomy>>

NextRetry == CallFunc \/ Sleep

SpecRetry == InitRetry /\ [][NextRetry]_vars

\* every call of func and every sleep comes to its end
SpecRetryFair == SpecRetry /\ WF_vars(NextRetry)

\* ------------------------------------------------------------------ C31
\* C31: retry_async calls func at most retries + 1 times; every call but the
\* last one failed, so the first Ok ends the calls; what is returned is the
\* result of the last call, and an error is returned only after
\* retries + 1 calls; one sleep precedes every retry and the k-th sleep lasts
\* delay * factor^(k-1) milliseconds; and retry_async returns when every
\* call of func returns.
C31_Retry ==
    /\ [](/\ Len(called) <= given.retries + 1
          /\ \A i \in 1..(Len(called) - 1) : called[i][1] = "Err"
          /\ stage = "returned" =>
                /\ returned = called[Len(called)]
                /\ returned[1] = "Err" => Len(called) = given.retries + 1
          /\ stage \in {"sleep", "returned"} => Len(slept) = Len(called) - 1
          /\ stage = "call" => Len(slept) = Len(called)
          /\ \A k \in DOMAIN slept :
                slept[k] = given.delay * given.factor ^ (k - 1))
    /\ <>(stage = "returned")

\* upload_data's arguments, every call failed: four calls, three sleeps, the
\* error of the fourth call is returned
C31_Witness ==
    /\ given = [retries |-> 3, delay |-> 1000, factor |-> 2]
    /\ stage = "returned"
    /\ called = << <<"Err", "e1">>, <<"Err", "e1">>, <<"Err", "e1">>, <<"Err", "e2">> >>
    /\ returned = <<"Err", "e2">>
    /\ slept = <<1000, 2000, 4000>>

\* ------------------------------------------------------------------ download_and_decompress_files
\* splashscreen/mod.rs of the first application: the resources are handled
\* one after the other.  The list in the source holds placeholders where the
\* checksums go; the lists below hold, for each checksum, the empty string,
\* the placeholder or the digest, and the directory is empty at the start.
MaxResources == 2

\* `!checksum.is_empty() && checksum != "<.._CHECKSUM>"`
Provided(checksum, placeholder) ==
    checksum # EmptyDigest /\ checksum # <<placeholder>>

\* sha256_of_file(path): File::open and the reads may fail
Sha256OfFile(f, io) ==
    IF f.ex /\ io THEN <<"Ok">> \o Sha256Hex(f.data) ELSE <<"Err">>

RECURSIVE GzOk(_)
\* io::copy from GzDecoder returns Ok: the stream has its last block and
\* trailer and nothing invalid before them
GzOk(d) ==
    IF d = <<>> THEN FALSE
    ELSE IF Head(d) = "z" THEN TRUE
    ELSE IF Head(d) = "x" THEN FALSE
    ELSE GzOk(Tail(d))

\* `writer` goes out of scope: what it holds is written, an error is ignored
Dropped(f, w) ==
    IF f.ex THEN [f EXCEPT !.data = @ \o w, !.done = TRUE] ELSE f

InitLegacy ==
    /\ DownloaderIdle
    /\ RetryIdle
    /\ DatabaseIdle
    /\ ReportIdle
    /\ TaxonomyIdle
    /\ resources \in [1..MaxResources ->
          [compressed : BOOLEAN,
           checksum_compressed :
              {EmptyDigest, <<"<COMPRESSED_CHECKSUM>">>, Sha256Hex(GoodBody)},
           checksum_decompressed :
              {EmptyDigest, <<"<DECOMPRESSED_CHECKSUM>">>, Sha256Hex(GoodFinal)}]]
    /\ resource = 1
    /\ phase = "get"
    /\ outcome = <<>>
    /\ files = [i \in 1..MaxResources |-> [c |-> NoFile, f |-> NoFile]]
    /\ writer = <<>>
    /\ computed = [i \in 1..MaxResources |-> [c |-> <<>>, d |-> <<>>]]

\* send, status, File::create and the loop over the chunks of the response
Fetch ==
    /\ phase = "get"
    /\ \E b \in Bodies, fail \in {"none", "send", "status", "create", "chunk"} :
          \* the chunks the BufWriter holds after the last write_all
          \E held \in 0..Len(b) :
             LET onDisk == SubSeq(b, 1, Len(b) - held)
             IN  CASE fail = "none" ->
                        /\ files' = [files EXCEPT ![resource].c =
                                        [ex |-> TRUE, data |-> onDisk, done |-> held = 0]]
                        /\ writer' = SubSeq(b, Len(b) - held + 1, Len(b))
                        /\ phase' = "verify_c"
                        /\ outcome' = outcome
                  [] fail = "chunk" ->
                        /\ files' = [files EXCEPT ![resource].c =
                                        [ex |-> TRUE, data |-> onDisk, done |-> FALSE]]
                        /\ writer' = <<>>
                        /\ phase' = "returned"
                        /\ outcome' = <<"Err", "download">>
                  [] OTHER ->
                        /\ phase' = "returned"
                        /\ outcome' = <<"Err", "download">>
                        /\ UNCHANGED <<files, writer>>
    /\ UNCHANGED <<resources, resource, computed, downloader, retry, database, report, taxonomy>>

\* the checksum of the compressed file, read back from disk
CheckCompressed ==
    /\ phase = "verify_c"
    /\ IF Provided(resources[resource].checksum_compressed, "<COMPRESSED_CHECKSUM>")
       THEN \E io \in BOOLEAN :
               computed' = [computed EXCEPT ![resource].c =
                               Sha256OfFile(files[resource].c, io)]
       ELSE computed' = computed
    /\ phase' = "decompress"
    /\ UNCHANGED <<resources, resource, outcome, files, writer, downloader, retry, database, report, taxonomy>>

\* `if resource.compressed { .. }`
Decompress ==
    /\ phase = "decompress"
    /\ IF resources[resource].compressed
       THEN \E io \in BOOLEAN :
              LET data == files[resource].c.data
              IN  IF io /\ GzOk(data)
                  THEN /\ files' = [files EXCEPT ![resource].f =
                                       [ex |-> TRUE, data |-> Gunzip(data), done |-> TRUE]]
                       /\ phase' = "verify_d"
                       /\ UNCHANGED <<outcome, writer>>
                  ELSE /\ files' = [files EXCEPT
                                       ![resource].f =
                                          IF io
                                          THEN [ex |-> TRUE, data |-> Decoded(data), done |-> FALSE]
                                          ELSE @,
                                       ![resource].c = Dropped(@, writer)]
                       /\ writer' = <<>>
                       /\ phase' = "returned"
                       /\ outcome' = <<"Err", "decompress">>
       ELSE /\ phase' = "verify_d"
            /\ UNCHANGED <<outcome, files, writer>>
    /\ UNCHANGED <<resources, resource, computed, downloader, retry, database, report, taxonomy>>

\* the checksum of the decompressed file; then the iteration ends
CheckDecompressed ==
    /\ phase = "verify_d"
    /\ IF Provided(resources[resource].checksum_decompressed, "<DECOMPRESSED_CHECKSUM>")
       THEN \E io \in BOOLEAN :
               computed' = [computed EXCEPT ![resource].d =
                               Sha256OfFile(files[resource].f, io)]
       ELSE computed' = computed
    /\ files' = [files EXCEPT ![resource].c = Dropped(@, writer)]
    /\ writer' = <<>>
    /\ IF resource = Len(resources)
       THEN phase' = "end" /\ resource' = resource
       ELSE phase' = "get" /\ resource' = resource + 1
    /\ UNCHANGED <<resources, outcome, downloader, retry, database, report, taxonomy>>

\* `Ok("All files downloaded, decompressed, and checksums verified (where provided).")`
ReturnOk ==
    /\ phase = "end"
    /\ phase' = "returned"
    /\ outcome' = <<"Ok">>
    /\ UNCHANGED <<resources, resource, files, writer, computed, downloader, retry, database, report, taxonomy>>

NextLegacy == Fetch \/ CheckCompressed \/ Decompress \/ CheckDecompressed \/ ReturnOk

SpecLegacy == InitLegacy /\ [][NextLegacy]_vars

MaxCalls == 4
ArchiveChunks == 3
ArchiveEntries == 3

\* verify_database: the path exists and is a directory
VerifyDatabase(d) == d.ex

InitDatabase ==
    /\ DownloaderIdle
    /\ RetryIdle
    /\ LegacyIdle
    /\ DatabaseIdle
    /\ ReportIdle
    /\ TaxonomyIdle

\* ensure_database up to the creation of the temporary file
EnsureDatabase ==
    /\ db_stage \in {"idle", "returned"}
    /\ db_calls < MaxCalls
    /\ db_calls' = db_calls + 1
    /\ IF VerifyDatabase(db_path)
       THEN /\ db_stage' = "returned"
            /\ db_result' = "Ok"
            /\ UNCHANGED <<db_path, temp_file>>
       ELSE \/ \* emit_status, reqwest::get or File::create fails
               /\ db_stage' = "returned"
               /\ db_result' = "Err"
               /\ UNCHANGED <<db_path, temp_file>>
            \/ /\ db_stage' = "download"
               /\ db_result' = "none"
               /\ temp_file' = [ex |-> TRUE, chunks |-> 0]
               /\ UNCHANGED db_path
    /\ UNCHANGED <<downloader, retry, legacy, report, taxonomy>>

\* one turn of `while let Some(chunk) = stream.next().await`, then flush
Download ==
    /\ db_stage = "download"
    /\ \/ \* the chunk, write_all, an emit or the flush fails
          /\ db_stage' = "returned"
          /\ db_result' = "Err"
          /\ UNCHANGED temp_file
       \/ /\ temp_file.chunks < ArchiveChunks
          /\ temp_file' = [temp_file EXCEPT !.chunks = @ + 1]
          /\ UNCHANGED <<db_stage, db_result>>
       \/ /\ temp_file.chunks = ArchiveChunks
          /\ db_stage' = "extract"
          /\ UNCHANGED <<temp_file, db_result>>
    /\ UNCHANGED <<db_path, db_calls, downloader, retry, legacy, report, taxonomy>>

\* one turn of `for entry in archive.entries()`, then the removal of the
\* temporary file and Ok(())
Extract ==
    /\ db_stage = "extract"
    /\ \/ \* the entry cannot be read or unpacked
          /\ db_stage' = "returned"
          /\ db_result' = "Err"
          /\ UNCHANGED <<db_path, temp_file>>
       \/ /\ db_path.entries < ArchiveEntries
          /\ db_path' = [ex |-> TRUE, entries |-> db_path.entries + 1]
          /\ UNCHANGED <<temp_file, db_stage, db_result>>
       \/ /\ db_path.entries = ArchiveEntries
          /\ temp_file' = [ex |-> FALSE, chunks |-> 0]
          /\ db_stage' = "returned"
          /\ db_result' \in {"Ok", "Err"}
          /\ UNCHANGED db_path
    /\ UNCHANGED <<db_calls, downloader, retry, legacy, report, taxonomy>>

\* the process is killed during a call
Kill ==
    /\ db_stage \in {"download", "extract"}
    /\ db_stage' = "idle"
    /\ UNCHANGED <<db_path, temp_file, db_result, db_calls, downloader, retry, legacy, report, taxonomy>>

NextDatabase == EnsureDatabase \/ Download \/ Extract \/ Kill

SpecDatabase == InitDatabase /\ [][NextDatabase]_vars

\* ------------------------------------------------------------------ C33
\* C33: when ensure_database has returned Ok, the directory at db_path holds
\* every entry of the archive; and a call skips the download only when the
\* directory holds every entry.
C33_NeverIncomplete ==
    /\ [](db_result = "Ok" => db_path.ex /\ db_path.entries = ArchiveEntries)
    /\ [][(db_calls' = db_calls + 1 /\ db_result' = "Ok") =>
             db_path.entries = ArchiveEntries]_vars

\* ------------------------------------------------------------------ parse_kraken_uniq_report
\* krakenuniq/parse_kraken_uniq_report.rs.  A line of the report is given by
\* what the parser looks at: the number of its tab-separated columns, its
\* rank column, and the leading spaces and the rest of its ninth column
\* (the taxon name, "" when the column is blank).  A tenth column, where
\* there is one, is not blank.  EmptyLine is a line without any character
\* but white space.
MaxLines == 4
StackLen == 50

EmptyLine == [cols |-> 0, rank |-> "", indent |-> 0, name |-> ""]

ReportLines ==
    {EmptyLine,
     [cols |-> 9, rank |-> "rank", indent |-> 0, name |-> "taxName"],
     [cols |-> 8, rank |-> "species", indent |-> 0, name |-> "Root"]}
    \cup [cols : {9}, rank : {"species"}, indent : {0, 2, 3, 4, 100},
          name : {"Root", "unclassified"}]
    \cup [cols : {9, 10}, rank : {"species"}, indent : {2}, name : {""}]

RECURSIVE Stack(_, _)
\* `stack` after the turn of the loop for temp_nodes[i]
Stack(temp_nodes, i) ==
    IF i = 0
    THEN [k \in 0..(StackLen - 1) |-> 0]
    ELSE LET d == temp_nodes[i].depth
         IN  [k \in 0..(StackLen - 1) |->
                 IF k = d THEN i
                 ELSE IF k > d THEN 0
                 ELSE Stack(temp_nodes, i - 1)[k]]

\* parse_kraken_uniq_report(report_content, ..): the rows, or the panic of
\* an index out of the bounds of `stack`.  The id of a row is its index
\* (Uuid::new_v4 gives every row an id of its own); 0 is None.
ParseKrakenUniqReport(content) ==
    LET \* `l.trim_end()`: a blank last column goes with its tab
        TrimEnd(l) == IF l.cols = 9 /\ l.name = "" THEN [l EXCEPT !.cols = 8] ELSE l
        NotEmpty(l) == l # EmptyLine
        trimmed == [i \in DOMAIN content |-> TrimEnd(content[i])]
        lines == SelectSeq(trimmed, NotEmpty)
        ToUppercase(r) == IF r = "rank" THEN "RANK"
                          ELSE IF r = "species" THEN "SPECIES" ELSE r
        ToAsciiLowercase(r) == IF r = "UNCLASSIFIED" THEN "unclassified"
                               ELSE IF r = "SPECIES" THEN "species" ELSE r
        \* 9 columns at least, re_indent matches, the rank is not RANK
        Kept(l) == l.cols >= 9 /\ l.name # "" /\ ToUppercase(l.rank) # "RANK"
        kept == SelectSeq(Tail(lines), Kept)
        temp_nodes == [i \in DOMAIN kept |->
                          [depth |-> kept[i].indent \div 2,
                           rank |-> IF kept[i].name = "unclassified"
                                    THEN "UNCLASSIFIED"
                                    ELSE ToUppercase(kept[i].rank),
                           tax_name |-> kept[i].name]]
        parents == [i \in DOMAIN temp_nodes |->
                       IF temp_nodes[i].depth > 0
                       THEN Stack(temp_nodes, i - 1)[temp_nodes[i].depth - 1]
                       ELSE 0]
    IN  IF Len(lines) < 2
        THEN [ok |-> TRUE, rows |-> <<>>]
        ELSE IF \E i \in DOMAIN temp_nodes : temp_nodes[i].depth >= StackLen
        THEN [ok |-> FALSE, rows |-> <<>>]
        ELSE [ok |-> TRUE,
              rows |-> [i \in DOMAIN temp_nodes |->
                          [id |-> i,
                           rank |-> ToAsciiLowercase(temp_nodes[i].rank),
                           tax_name |-> temp_nodes[i].tax_name,
                           parent_id |-> parents[i],
                           children_ids |->
                              SelectSeq([j \in DOMAIN temp_nodes |-> j],
                                        LAMBDA j : parents[j] = i)]]]

InitReport ==
    /\ DownloaderIdle
    /\ RetryIdle
    /\ LegacyIdle
    /\ DatabaseIdle
    /\ TaxonomyIdle
    /\ report_content \in UNION {[1..n -> ReportLines] : n \in 0..MaxLines}
    /\ parsed = <<>>

ParseReport ==
    /\ parsed = <<>>
    /\ parsed' = <<ParseKrakenUniqReport(report_content)>>
    /\ UNCHANGED <<report_content, downloader, retry, legacy, database, taxonomy>>

SpecReport == InitReport /\ [][ParseReport]_vars

\* ------------------------------------------------------------------ C34
\* C34: parse_kraken_uniq_report returns, in the order of the input, one row
\* for every non-empty line after the first one that has at least 9 columns
\* and whose rank column is not `rank`; the row of a taxon name with
\* `unclassified` has the rank `unclassified`; and the parent of a row is
\* the most recent preceding row whose depth (indentation / 2) is one less
\* with no shallower row in between, or none where there is no such row.
C34_Rows ==
    parsed # <<>> =>
        LET NotEmpty(l) == l # EmptyLine
            lines == SelectSeq(report_content, NotEmpty)
            Row(l) == l.cols >= 9 /\ l.rank # "rank"
            q == IF lines = <<>> THEN <<>> ELSE SelectSeq(Tail(lines), Row)
            depth(k) == q[k].indent \div 2
            Above(k) == {j \in 1..(k - 1) :
                           /\ depth(j) = depth(k) - 1
                           /\ \A m \in (j + 1)..(k - 1) : depth(m) >= depth(j)}
            rows == parsed[1].rows
        IN  /\ parsed[1].ok
            /\ Len(rows) = Len(q)
            /\ \A k \in DOMAIN q :
                  /\ rows[k].tax_name = q[k].name
                  /\ q[k].name = "unclassified" => rows[k].rank = "unclassified"
                  /\ rows[k].parent_id =
                        IF Above(k) = {} THEN 0
                        ELSE CHOOSE j \in Above(k) : \A i \in Above(k) : i <= j

\* ------------------------------------------------------------------ build_taxonomy_hierarchy
\* build_taxonomy_hierarchy.rs.  The nodes given have the names and depths
\* below, names and depths that occur more than once included; the tax_id of
\* a node is its place in the input, which the function does not look at.
MaxNodes == 5

RECURSIVE AddChildToParent(_, _, _, _, _)
\* add_child_to_parent(nodes, parent_depth, parent_name, child), from the
\* i-th node of `nodes` on: the first node of that depth and name gets the
\* child and the call returns; a node with children is searched and the
\* loop goes on with the node after it
AddChildToParent(list, i, parent_depth, parent_name, child) ==
    IF i > Len(list) THEN list
    ELSE IF list[i].depth = parent_depth /\ list[i].name = parent_name
    THEN [list EXCEPT ![i].children = Append(@, child)]
    ELSE IF list[i].children # <<>>
    THEN AddChildToParent(
            [list EXCEPT ![i].children =
                AddChildToParent(@, 1, parent_depth, parent_name, child)],
            i + 1, parent_depth, parent_name, child)
    ELSE AddChildToParent(list, i + 1, parent_depth, parent_name, child)

RECURSIVE BuildTaxonomyHierarchy(_, _)
\* `root_nodes` and `stack` after the first n turns of `for mut node in nodes`
BuildTaxonomyHierarchy(list, n) ==
    IF n = 0 THEN [root_nodes |-> <<>>, stack |-> <<>>]
    ELSE LET before == BuildTaxonomyHierarchy(list, n - 1)
             node == [list[n] EXCEPT !.children = <<>>]
             \* `while let Some(last_node) = stack.last()`: pop while
             \* last_node.depth >= node.depth
             open == before.stack
             Popped[k \in 0..Len(open)] ==
                 IF k = 0 THEN 0
                 ELSE IF open[k].depth >= node.depth THEN Popped[k - 1]
                 ELSE k
             stack == SubSeq(open, 1, Popped[Len(open)])
         IN  [root_nodes |->
                 IF stack = <<>>
                 THEN Append(before.root_nodes, node)
                 ELSE AddChildToParent(before.root_nodes, 1,
                                       stack[Len(stack)].depth,
                                       stack[Len(stack)].name, node),
              stack |-> Append(stack, node)]

InitTaxonomy ==
    /\ DownloaderIdle
    /\ RetryIdle
    /\ LegacyIdle
    /\ DatabaseIdle
    /\ ReportIdle
    /\ \E n \in 0..MaxNodes :
          \E named \in [1..n -> [name : {"a", "b"}, depth : {0, 1, 2}]] :
             nodes = [i \in 1..n |->
                        [name |-> named[i].name, depth |-> named[i].depth,
                         tax_id |-> i, children |-> <<>>]]
    /\ hierarchy = <<>>

BuildHierarchy ==
    /\ hierarchy = <<>>
    /\ hierarchy' = <<BuildTaxonomyHierarchy(nodes, Len(nodes)).root_nodes>>
    /\ UNCHANGED <<nodes, downloader, retry, legacy, database, report>>

SpecTaxonomy == InitTaxonomy /\ [][BuildHierarchy]_vars

\* ------------------------------------------------------------------ C35
RECURSIVE Placed(_, _)
\* the places of a forest: <<tax_id of the node, tax_id of its parent>>,
\* 0 for a root
Placed(forest, parent) ==
    IF forest = <<>> THEN <<>>
    ELSE <<  <<Head(forest).tax_id, parent>>  >>
         \o Placed(Head(forest).children, Head(forest).tax_id)
         \o Placed(Tail(forest), parent)

\* C35: the forest returned by build_taxonomy_hierarchy has as many nodes as
\* the input, and every input node has one place in it: below the nearest
\* preceding input node of strictly smaller depth, or among the roots when
\* no preceding node has a smaller depth.
C35_PlacedOnce ==
    hierarchy # <<>> =>
        LET places == Placed(hierarchy[1], 0)
            Above(i) == {j \in 1..(i - 1) : nodes[j].depth < nodes[i].depth}
        IN  /\ Len(places) = Len(nodes)
            /\ \A i \in DOMAIN nodes :
                  \E k \in DOMAIN places :
                     /\ places[k][1] = i
                     /\ places[k][2] =
                           IF Above(i) = {} THEN 0
                           ELSE CHOOSE j \in Above(i) : \A m \in Above(i) : m <= j
                     /\ \A h \in DOMAIN places : places[h][1] = i => h = k

====
